---- MODULE Spec2Model ----
(***************************************************************************)
(* The in-memory subnet/address allocator of mini-ipam-driver              *)
(* (allocator.LocalAllocator) and the byte primitives of package bytop.    *)
(*                                                                         *)
(* Addresses and masks are Go byte slices: here sequences of bytes         *)
(* (0..255), 1-indexed, so Go's a[i] is a[i+1].  A nil slice is <<>>.      *)
(* A *net.IPNet is a record [IP, Mask]; the nil pointer is NilPool.        *)
(* Strings produced by IP.String() and IPNet.String() are tuples of the    *)
(* numbers the text spells: "172.16.0.1" is <<172,16,0,1>> and             *)
(* "172.16.0.0/29" is <<172,16,0,0,29>>.                                   *)
(***************************************************************************)
EXTENDS Integers, Sequences, FiniteSets, TLC

\* ---------------------------------------------------------------- bounds

\* Callers draw pools and addresses from the block 172.16.0.0/(32-HostBits).
HostBits == 2
\* Number of calls made on the allocator in one behaviour.
MaxCalls == 4
\* Number of goroutines calling into the allocator at the same time.
NumThreads == 2

\* ----------------------------------------------------- program constants

IPv4len == 4
IPv6len == 16
NumSlots == 32
MaxMasklen == 31
AddRadix == 255
\* uint32(0) - 1 is 4294967295; integers here end at 2^31 - 1, and an index
\* of either size is past the end of every slice.
WrappedIndex == 2147483647

\* ------------------------------------------------------------ package bytop

Min2(x, y) == IF x < y THEN x ELSE y
max(x, y) == IF x > y THEN x ELSE y

RECURSIVE BitAnd(_, _)
BitAnd(x, y) ==
    IF x = 0 \/ y = 0 THEN 0
    ELSE (x % 2) * (y % 2) + 2 * BitAnd(x \div 2, y \div 2)

RECURSIVE BitOr(_, _)
BitOr(x, y) ==
    IF x = 0 THEN y
    ELSE IF y = 0 THEN x
    ELSE max(x % 2, y % 2) + 2 * BitOr(x \div 2, y \div 2)

\* A byte slice as an explicit tuple of its bytes
Bytes(f) == SubSeq(f, 1, Len(f))

\* ^a[i] on a byte
BitNot(x) == 255 - x

\* Not(a, nil)
Not(a) == Bytes([i \in 1..Len(a) |-> BitNot(a[i])])

\* And(a, b, nil): positions missing from an operand do not constrain
And(a, b) ==
    Bytes([i \in 1..max(Len(a), Len(b)) |->
            BitAnd(BitAnd(255, IF i <= Len(a) THEN a[i] ELSE 255),
                   IF i <= Len(b) THEN b[i] ELSE 255)])

\* Or(a, b, nil)
Or(a, b) ==
    Bytes([i \in 1..max(Len(a), Len(b)) |->
            BitOr(BitOr(0, IF i <= Len(a) THEN a[i] ELSE 0),
                  IF i <= Len(b) THEN b[i] ELSE 0)])

\* i-- on a uint32
Dec32(i) == IF i = 0 THEN WrappedIndex ELSE i - 1

\* The loop of Add: i is a uint32, so "i >= 0" never fails and i-- at 0
\* wraps; a[i] then faults (index out of range).  n is added to every byte,
\* and the carry is taken base 0xFF.  For 0 <= n < 2^24 no sum leaves the
\* uint32 range.
RECURSIVE AddLoop(_, _, _, _, _)
AddLoop(a, n, dst, i, carry) ==
    IF i >= Len(a) \/ i >= Len(dst)
    THEN [dst |-> dst, panicked |-> TRUE]
    ELSE LET c == carry + (a[i + 1] + n)
         IN  AddLoop(a, n, [dst EXCEPT ![i + 1] = (c % AddRadix) % 256],
                     Dec32(i), c \div AddRadix)

\* Add(a, n, a): in place, as both call sites use it
Add(a, n) == AddLoop(a, n, a, Dec32(Len(a)), 0)

Equal(a, b) ==
    /\ Len(a) = Len(b)
    /\ \A i \in 1..Len(a) : a[i] = b[i]

\* Variant: the bit is set, never cleared
XorBit_SetOnly(b, j) ==
    LET bit == 2 ^ (7 - j)
    IN  IF (b \div bit) % 2 = 1 THEN b ELSE b + bit

\* s[i] ^= 1 << (7 - j)
XorBit(b, j) ==
    LET bit == 2 ^ (7 - j)
    IN  IF (b \div bit) % 2 = 1 THEN b - bit ELSE b + bit

FlipBit(index, s) ==
    LET i == index \div 8
        j == index % 8
    IN  [s EXCEPT ![i + 1] = XorBit(s[i + 1], j)]

\* bytop.Copy: a fresh slice with the same bytes
Copy(a) == a

\* ------------------------------------------------------------- package net

NilIP == <<>>
NilPool == [IP |-> <<>>, Mask |-> <<>>]

\* net.CIDRMask(ones, 32)
MaskByte(ones, k) ==
    LET n == Min2(8, max(0, ones - 8 * (k - 1)))
    IN  256 - 2 ^ (8 - n)

CIDRMask(ones) == Bytes([k \in 1..IPv4len |-> MaskByte(ones, k)])

RECURSIVE LeadingOnes(_)
LeadingOnes(b) == IF b >= 128 THEN 1 + LeadingOnes((2 * b) % 256) ELSE 0

RECURSIVE SeqLeadingOnes(_, _)
SeqLeadingOnes(m, k) ==
    IF k > Len(m) THEN 0
    ELSE IF m[k] = 255 THEN 8 + SeqLeadingOnes(m, k + 1)
    ELSE LeadingOnes(m[k])

\* IPMask.Size(): (0, 0) for a mask that is not ones followed by zeros
Size(m) ==
    LET ones == SeqLeadingOnes(m, 1)
    IN  IF Len(m) = IPv4len /\ m = CIDRMask(ones)
        THEN [ones |-> ones, bits |-> 8 * Len(m)]
        ELSE IF Len(m) # IPv4len /\ \A k \in 1..Len(m) : m[k] = 255
        THEN [ones |-> 8 * Len(m), bits |-> 8 * Len(m)]
        ELSE [ones |-> 0, bits |-> 0]

V4InV6Prefix == <<0, 0, 0, 0, 0, 0, 0, 0, 0, 0, 255, 255>>

\* IP.To4()
To4(ip) ==
    IF Len(ip) = IPv4len THEN ip
    ELSE IF Len(ip) = IPv6len /\ SubSeq(ip, 1, 12) = V4InV6Prefix
    THEN SubSeq(ip, 13, 16)
    ELSE NilIP

\* IP.String(): the dotted text of a v4 (or v4-in-v6) address
IPString(ip) == IF To4(ip) # NilIP THEN To4(ip) ELSE ip

\* IPNet.String(): the address as stored (not masked), "/", the mask length
PoolString(pool) == Append(IPString(pool.IP), Size(pool.Mask).ones)

\* IPNet.Contains(ip)
Contains(pool, ip) ==
    LET nn == To4(pool.IP)
        x == IF To4(ip) # NilIP THEN To4(ip) ELSE ip
    IN  /\ Len(x) = Len(nn)
        /\ \A i \in 1..Len(x) :
              BitAnd(nn[i], pool.Mask[i]) = BitAnd(x[i], pool.Mask[i])

\* net.ParseCIDR of the text of a normalized pool
KeyPool(k) == [IP |-> SubSeq(k, 1, IPv4len), Mask |-> CIDRMask(k[IPv4len + 1])]

\* ------------------------------------------------------- pool model

normalizePool(ipnet) ==
    LET ip == To4(ipnet.IP)
    IN  IF ip = NilIP THEN NilPool
        ELSE [IP |-> And(ip, ipnet.Mask), Mask |-> Copy(ipnet.Mask)]

\* Variant: flips the first host bit instead of the last network bit
adjacentPool_HostBit(pool) ==
    LET masklen == Size(pool.Mask).ones
    IN  IF masklen <= 0 THEN NilPool
        ELSE [IP |-> FlipBit(masklen, Copy(pool.IP)), Mask |-> Copy(pool.Mask)]

adjacentPool(pool) ==
    LET masklen == Size(pool.Mask).ones
    IN  IF masklen <= 0 THEN NilPool
        ELSE [IP |-> FlipBit(masklen - 1, Copy(pool.IP)), Mask |-> Copy(pool.Mask)]

\* Variant: the mask is shortened, the address is kept
expandPool_MaskOnly(pool) ==
    LET masklen == Size(pool.Mask).ones
    IN  IF masklen <= 0 THEN NilPool
        ELSE [IP |-> pool.IP, Mask |-> CIDRMask(masklen - 1)]

expandPool(pool) ==
    LET masklen == Size(pool.Mask).ones
    IN  IF masklen <= 0 THEN NilPool
        ELSE LET mask == CIDRMask(masklen - 1)
             IN  [IP |-> And(pool.IP, mask), Mask |-> mask]

\* Variant: the left half keeps the mask of the pool it was split from
splitPool_LeftMaskKept(pool) ==
    LET sz == Size(pool.Mask)
        masklen == sz.ones
        n == normalizePool(pool)
    IN  IF sz.bits # 32 \/ masklen >= 32 THEN <<NilPool, NilPool>>
        ELSE << [IP |-> n.IP, Mask |-> n.Mask],
                [IP |-> FlipBit(masklen, n.IP), Mask |-> FlipBit(masklen, n.Mask)] >>

\* Variant: the right half is given the address of the left half
splitPool_RightIsLeft(pool) ==
    LET sz == Size(pool.Mask)
        masklen == sz.ones
        n == normalizePool(pool)
    IN  IF sz.bits # 32 \/ masklen >= 32 THEN <<NilPool, NilPool>>
        ELSE << [IP |-> n.IP, Mask |-> FlipBit(masklen, n.Mask)],
                [IP |-> n.IP, Mask |-> FlipBit(masklen, n.Mask)] >>

\* splitPool returns (left, right); (nil, nil) is <<NilPool, NilPool>>
splitPool(pool) ==
    LET sz == Size(pool.Mask)
        masklen == sz.ones
        n == normalizePool(pool)
    IN  IF sz.bits # 32 \/ masklen >= 32 THEN <<NilPool, NilPool>>
        ELSE << [IP |-> n.IP, Mask |-> FlipBit(masklen, n.Mask)],
                [IP |-> FlipBit(masklen, n.IP), Mask |-> FlipBit(masklen, n.Mask)] >>

\* Variant: only the network address of b is looked up in a
poolOverlap_OneWay(a, b) ==
    IF a = NilPool \/ b = NilPool THEN FALSE
    ELSE Contains(a, And(To4(b.IP), b.Mask))

poolOverlap(a, b) ==
    IF a = NilPool \/ b = NilPool THEN FALSE
    ELSE \/ Contains(a, And(To4(b.IP), b.Mask))
         \/ Contains(b, And(To4(a.IP), a.Mask))

\* ------------------------------------------------------- LocalAllocator

VARIABLES
    pools,      \* a.pools: slot index -> list of free pools
    allocated,  \* a.allocated: the keys mapped to true
    updated,    \* a.updated
    last,       \* the last call made by a caller: its arguments and results
    leased,     \* keys returned by successful requests and not yet released
    added,      \* normalized pools a caller's AddPool accepted
    calls,      \* number of calls made so far
    lock,       \* a.lock: the writer holding it (0: none), the number of readers
    th,         \* the call each concurrent caller is in, and its locals
    saver,      \* the autosave goroutine: its position and the locals of Dump
    file,       \* the snapshot last written to localBackup
    saves,      \* number of snapshots written
    muts        \* number of successful calls concurrent callers completed

vars == <<pools, allocated, updated, last, leased, added, calls,
          lock, th, saver, file, saves, muts>>

\* What only the interleaved executions change
cvars == <<lock, th, saver, file, saves, muts>>

\* Goroutines calling into the allocator at the same time
Threads == 1..NumThreads

\* A caller that is in no call.  p0 and a0 are a.pools and a.allocated as
\* they were when the call took the lock; during holds the keys other
\* callers were given, and have not released, since the call was entered.
IdleTh ==
    [pc |-> "idle", op |-> "none", masklen |-> -1, pool |-> NilPool,
     ip |-> NilIP, cur |-> NilPool, i |-> -1, err |-> "nil",
     retPool |-> NilPool, retIP |-> NilIP,
     p0 |-> <<>>, a0 |-> {}, during |-> {}]

\* autosave before its first L.Lock(), and after every save
SaverStart == [pc |-> "start", free |-> <<>>, alloc |-> {}]

\* No snapshot written: loading it gives nothing
NoFile == [free |-> <<>>, allocated |-> {}]

\* After init(): the lock is free, autosave was started, no caller is in
Quiet ==
    /\ lock = [w |-> 0, r |-> 0]
    /\ th = [t \in Threads |-> IdleTh]
    /\ saver = SaverStart
    /\ file = NoFile
    /\ saves = 0
    /\ muts = 0

Slots == 0..(NumSlots - 1)

\* What a call returns: err = "nil" on success, "panic" for a run-time fault
\* that unwinds the call (the deferred Unlock still runs).
Call(op, masklen, pool, ip, err, retPool, retIP) ==
    [op |-> op, masklen |-> masklen, pool |-> pool, ip |-> ip,
     err |-> err, retPool |-> retPool, retIP |-> retIP]

\* Variant: the loop only looks for the buddy
FirstMatch_BuddyOnly(s, pool, masklen) ==
    LET hit(i) == masklen # 0 /\ Equal(pool.IP, adjacentPool(s[i]).IP)
    IN  IF \E i \in 1..Len(s) : hit(i)
        THEN CHOOSE i \in 1..Len(s) : hit(i) /\ \A j \in 1..(i - 1) : ~hit(j)
        ELSE 0

\* Variant: the loop only looks for the pool itself
FirstMatch_DuplicateOnly(s, pool, masklen) ==
    LET hit(i) == Equal(pool.IP, s[i].IP)
    IN  IF \E i \in 1..Len(s) : hit(i)
        THEN CHOOSE i \in 1..Len(s) : hit(i) /\ \A j \in 1..(i - 1) : ~hit(j)
        ELSE 0

\* The range loop of addPoolNoLock: the first entry that is the pool itself
\* or its buddy; 0 when there is none.
FirstMatch(s, pool, masklen) ==
    LET hit(i) == \/ Equal(pool.IP, s[i].IP)
                  \/ masklen # 0 /\ Equal(pool.IP, adjacentPool(s[i]).IP)
    IN  IF \E i \in 1..Len(s) : hit(i)
        THEN CHOOSE i \in 1..Len(s) : hit(i) /\ \A j \in 1..(i - 1) : ~hit(j)
        ELSE 0

\* append(s[:i], s[i+1:]...)
RemoveAt(s, i) == SubSeq(s, 1, i - 1) \o SubSeq(s, i + 1, Len(s))

RECURSIVE addPoolNoLock(_, _)
addPoolNoLock(ps, rawpool) ==
    LET pool == normalizePool(rawpool)
        masklen == Size(pool.Mask).ones
    IN  IF pool = NilPool \/ masklen >= NumSlots
        THEN [pools |-> ps, err |-> "panic", signal |-> FALSE]
        ELSE LET s == ps[masklen]
                 i == FirstMatch(s, pool, masklen)
             IN  IF i = 0
                 THEN [pools |-> [ps EXCEPT ![masklen] = Append(s, pool)],
                       err |-> "nil", signal |-> TRUE]
                 ELSE IF Equal(pool.IP, s[i].IP)
                 THEN [pools |-> ps, err |-> "DuplicatePool", signal |-> FALSE]
                 ELSE addPoolNoLock([ps EXCEPT ![masklen] = RemoveAt(s, i)],
                                    expandPool(pool))

AddPoolResult(ps, pool) ==
    IF Len(pool.Mask) # IPv4len
    THEN [pools |-> ps, err |-> "InvalidAddressFamily", signal |-> FALSE]
    ELSE addPoolNoLock(ps, pool)

\* Variant: the scan takes a block from any slot, also one too small
FindSlot_AnySlot(ps, masklen) ==
    IF \E i \in Slots : Len(ps[i]) > 0
    THEN CHOOSE i \in Slots : Len(ps[i]) > 0 /\ \A j \in (i + 1)..(NumSlots - 1) : Len(ps[j]) = 0
    ELSE -1

\* Variant: the scan takes the largest block that fits
FindSlot_LargestBlock(ps, masklen) ==
    IF \E i \in 0..masklen : Len(ps[i]) > 0
    THEN CHOOSE i \in 0..masklen :
            Len(ps[i]) > 0 /\ \A j \in 0..(i - 1) : Len(ps[j]) = 0
    ELSE -1

\* The downward scan of RequestPool: the slot the block is taken from, -1
\* when slots masklen..0 are all empty.
FindSlot(ps, masklen) ==
    IF \E i \in 0..masklen : Len(ps[i]) > 0
    THEN CHOOSE i \in 0..masklen :
            Len(ps[i]) > 0 /\ \A j \in (i + 1)..masklen : Len(ps[j]) = 0
    ELSE -1

\* Variant: the split loop pushes the left half and goes on with the right
RECURSIVE SplitDown_KeepRight(_, _, _, _)
SplitDown_KeepRight(ps, pool, i, masklen) ==
    IF i >= masklen THEN [pools |-> ps, pool |-> pool]
    ELSE LET sp == splitPool(pool)
         IN  SplitDown_KeepRight([ps EXCEPT ![i + 1] = Append(@, sp[1])], sp[2],
                                 i + 1, masklen)

\* Variant: the right halves are not put back
RECURSIVE SplitDown_RightDropped(_, _, _, _)
SplitDown_RightDropped(ps, pool, i, masklen) ==
    IF i >= masklen THEN [pools |-> ps, pool |-> pool]
    ELSE SplitDown_RightDropped(ps, splitPool(pool)[1], i + 1, masklen)

\* The split loop of RequestPool
RECURSIVE SplitDown(_, _, _, _)
SplitDown(ps, pool, i, masklen) ==
    IF i >= masklen THEN [pools |-> ps, pool |-> pool]
    ELSE LET sp == splitPool(pool)
         IN  SplitDown([ps EXCEPT ![i + 1] = Append(@, sp[2])], sp[1],
                       i + 1, masklen)

RequestPoolResult(ps, alloc, masklen, reqpool) ==
    LET fail(e) == [pools |-> ps, allocated |-> alloc, err |-> e,
                    ret |-> NilPool, signal |-> FALSE]
    IN  IF reqpool # NilPool THEN fail("NotImplemented")
        ELSE IF masklen < 0 \/ masklen > MaxMasklen THEN fail("InvalidMaskLength")
        ELSE LET i == FindSlot(ps, masklen)
             IN  IF i < 0 THEN fail("PoolExhausted")
                 ELSE LET popped == [ps EXCEPT ![i] = Tail(@)]
                          r == SplitDown(popped, Head(ps[i]), i, masklen)
                      IN  [pools |-> r.pools,
                           allocated |-> alloc \cup {PoolString(r.pool)},
                           err |-> "nil", ret |-> r.pool, signal |-> TRUE]

\* Variant: the key stays in the allocated set
ReleasePoolResult_KeyKept(ps, alloc, pool) ==
    IF PoolString(pool) \in alloc
    THEN LET r == addPoolNoLock(ps, pool)
         IN  [pools |-> r.pools, allocated |-> alloc,
              err |-> IF r.err = "panic" THEN "panic" ELSE "nil",
              signal |-> TRUE]
    ELSE [pools |-> ps, allocated |-> alloc, err |-> "PoolNotAllocated",
          signal |-> FALSE]

\* ReleasePool drops the error of addPoolNoLock; a fault in it unwinds the
\* call before the key is deleted.
ReleasePoolResult(ps, alloc, pool) ==
    IF PoolString(pool) \in alloc
    THEN LET r == addPoolNoLock(ps, pool)
         IN  IF r.err = "panic"
             THEN [pools |-> r.pools, allocated |-> alloc, err |-> "panic",
                   signal |-> r.signal]
             ELSE [pools |-> r.pools,
                   allocated |-> alloc \ {PoolString(pool)},
                   err |-> "nil", signal |-> TRUE]
    ELSE [pools |-> ps, allocated |-> alloc, err |-> "PoolNotAllocated",
          signal |-> FALSE]

\* The search loop of RequestAddress: ip is the candidate, limit the
\* broadcast address.
RECURSIVE SearchFree(_, _, _)
SearchFree(alloc, ip, limit) ==
    IF Equal(ip, limit) THEN [err |-> "PoolExhausted", ip |-> NilIP]
    ELSE IF IPString(ip) \notin alloc THEN [err |-> "nil", ip |-> ip]
    ELSE LET nxt == Add(ip, 1)
         IN  IF nxt.panicked THEN [err |-> "panic", ip |-> NilIP]
             ELSE SearchFree(alloc, nxt.dst, limit)

\* Variant: any pool lying inside a leased pool passes for leased
AddressPoolLeased_ByRange(alloc, pool) ==
    \E k \in alloc :
        Len(k) = IPv4len + 1 /\ Contains(KeyPool(k), pool.IP)
                             /\ Size(pool.Mask).ones >= k[IPv4len + 1]

\* The guard of RequestAddress: a.allocated[pool.String()]
AddressPoolLeased(alloc, pool) == PoolString(pool) \in alloc

\* Variant: an address of the pool is handed out even when it is taken
AddressAvailable_InPoolOnly(alloc, pool, ip) == Contains(pool, ip)

\* The test of a request naming an address
AddressAvailable(alloc, pool, ip) ==
    Contains(pool, ip) /\ IPString(ip) \notin alloc

RequestAddressResult(alloc, pool, ip) ==
    LET fail(e) == [allocated |-> alloc, err |-> e, ret |-> NilIP,
                    signal |-> FALSE]
    IN  IF ~AddressPoolLeased(alloc, pool) THEN fail("PoolNotAllocated")
        ELSE IF ip # NilIP
        THEN IF AddressAvailable(alloc, pool, ip)
             THEN [allocated |-> alloc \cup {IPString(ip)}, err |-> "nil",
                   ret |-> ip, signal |-> FALSE]
             ELSE fail("AddressUnavailable")
        ELSE LET ip0 == Copy(To4(pool.IP))
             IN  IF ip0 = NilIP THEN fail("InvalidAddressFamily")
                 ELSE LET limit == Or(Not(pool.Mask), ip0)
                          first == Add(ip0, 1)
                      IN  IF first.panicked THEN fail("panic")
                          ELSE LET f == SearchFree(alloc, first.dst, limit)
                               IN  IF f.err = "nil"
                                   THEN [allocated |-> alloc \cup {IPString(f.ip)},
                                         err |-> "nil", ret |-> f.ip,
                                         signal |-> TRUE]
                                   ELSE fail(f.err)

\* Variant: the key stays in the allocated set
ReleaseAddressResult_KeyKept(alloc, ip) ==
    LET ip4 == To4(ip)
    IN  IF ip4 = NilIP
        THEN [allocated |-> alloc, err |-> "InvalidAddressFamily", signal |-> FALSE]
        ELSE IF IPString(ip4) \in alloc
        THEN [allocated |-> alloc, err |-> "nil", signal |-> TRUE]
        ELSE [allocated |-> alloc, err |-> "AddressNotAllocated", signal |-> FALSE]

\* Variant: releasing an address that is not allocated is not an error
ReleaseAddressResult_SilentMiss(alloc, ip) ==
    LET ip4 == To4(ip)
    IN  IF ip4 = NilIP
        THEN [allocated |-> alloc, err |-> "InvalidAddressFamily", signal |-> FALSE]
        ELSE [allocated |-> alloc \ {IPString(ip4)}, err |-> "nil", signal |-> TRUE]

ReleaseAddressResult(alloc, ip) ==
    LET ip4 == To4(ip)
    IN  IF ip4 = NilIP
        THEN [allocated |-> alloc, err |-> "InvalidAddressFamily", signal |-> FALSE]
        ELSE IF IPString(ip4) \in alloc
        THEN [allocated |-> alloc \ {IPString(ip4)}, err |-> "nil", signal |-> TRUE]
        ELSE [allocated |-> alloc, err |-> "AddressNotAllocated", signal |-> FALSE]

\* ------------------------------------------------------------ the calls

AddPool(pool) ==
    LET r == AddPoolResult(pools, pool)
    IN  /\ calls < MaxCalls
        /\ pools' = r.pools
        /\ allocated' = allocated
        /\ updated' = (updated \/ r.signal)
        /\ last' = Call("AddPool", -1, pool, NilIP, r.err, NilPool, NilIP)
        /\ leased' = leased
        /\ added' = IF r.err = "nil" THEN added \cup {normalizePool(pool)} ELSE added
        /\ calls' = calls + 1
        /\ UNCHANGED cvars

RequestPool(masklen, reqpool) ==
    LET r == RequestPoolResult(pools, allocated, masklen, reqpool)
    IN  /\ calls < MaxCalls
        /\ pools' = r.pools
        /\ allocated' = r.allocated
        /\ updated' = (updated \/ r.signal)
        /\ last' = Call("RequestPool", masklen, reqpool, NilIP, r.err, r.ret, NilIP)
        /\ leased' = IF r.err = "nil" THEN leased \cup {PoolString(r.ret)} ELSE leased
        /\ added' = added
        /\ calls' = calls + 1
        /\ UNCHANGED cvars

ReleasePool(pool) ==
    LET r == ReleasePoolResult(pools, allocated, pool)
    IN  /\ calls < MaxCalls
        /\ pools' = r.pools
        /\ allocated' = r.allocated
        /\ updated' = (updated \/ r.signal)
        /\ last' = Call("ReleasePool", -1, pool, NilIP, r.err, NilPool, NilIP)
        /\ leased' = IF r.err = "nil" THEN leased \ {PoolString(pool)} ELSE leased
        /\ added' = added
        /\ calls' = calls + 1
        /\ UNCHANGED cvars

RequestAddress(pool, ip) ==
    LET r == RequestAddressResult(allocated, pool, ip)
    IN  /\ calls < MaxCalls
        /\ pools' = pools
        /\ allocated' = r.allocated
        /\ updated' = (updated \/ r.signal)
        /\ last' = Call("RequestAddress", -1, pool, ip, r.err, NilPool, r.ret)
        /\ leased' = IF r.err = "nil" THEN leased \cup {IPString(r.ret)} ELSE leased
        /\ added' = added
        /\ calls' = calls + 1
        /\ UNCHANGED cvars

ReleaseAddress(ip) ==
    LET r == ReleaseAddressResult(allocated, ip)
    IN  /\ calls < MaxCalls
        /\ pools' = pools
        /\ allocated' = r.allocated
        /\ updated' = (updated \/ r.signal)
        /\ last' = Call("ReleaseAddress", -1, NilPool, ip, r.err, NilPool, NilIP)
        /\ leased' = IF r.err = "nil" THEN leased \ {IPString(ip)} ELSE leased
        /\ added' = added
        /\ calls' = calls + 1
        /\ UNCHANGED cvars

\* ------------------------------------------------------ callers' inputs

\* 172.16.0.0 + k
AddrAt(k) == <<172, 16, k \div 256, k % 256>>

BlockAddrs == {AddrAt(k) : k \in 0..(2 ^ HostBits - 1)}

Mapped(ip) == V4InV6Prefix \o ip

V6Addr == <<32, 1, 13, 184, 0, 0, 0, 0, 0, 0, 0, 0, 0, 0, 0, 1>>

V6Mask == Bytes([k \in 1..IPv6len |-> 255])

\* Aligned blocks of the caller's range that fit a slot (mask length <= 31)
NormPools ==
    {normalizePool([IP |-> ip, Mask |-> CIDRMask(l)]) :
        ip \in BlockAddrs, l \in (32 - HostBits)..MaxMasklen}

\* Single addresses as /32 pools: the two halves of 172.16.0.0/31
HostPools ==
    {[IP |-> AddrAt(k), Mask |-> CIDRMask(32)] : k \in {0, 1}}

\* A pool whose address has a host bit set: 172.16.0.1/(32-HostBits+1)
DenormPool == [IP |-> AddrAt(1), Mask |-> CIDRMask(32 - HostBits + 1)]

\* A pool given with a 16-byte mask, and one with a v6 address
V6MaskPool == [IP |-> AddrAt(0), Mask |-> V6Mask]
V6AddrPool == [IP |-> V6Addr, Mask |-> CIDRMask(30)]

AddPoolInputs == NormPools \cup HostPools \cup {DenormPool, V6MaskPool, V6AddrPool}

LeaseInputs == NormPools \cup {DenormPool}

MasklenInputs == {-1, 32} \cup ((32 - HostBits - 1)..MaxMasklen)

\* .1 lies in the first block of every size, the last-but-one address only
\* in the blocks that end the range; the v4-in-v6 form spells the same text
RequestAddrInputs ==
    {NilIP, AddrAt(1), AddrAt(2 ^ HostBits - 2), Mapped(AddrAt(1))}

ReleaseAddrInputs ==
    {AddrAt(0), AddrAt(1), AddrAt(2 ^ HostBits - 2), Mapped(AddrAt(1)), V6Addr}

Init ==
    /\ pools = [i \in Slots |-> <<>>]
    /\ allocated = {}
    /\ updated = FALSE
    /\ last = Call("init", -1, NilPool, NilIP, "nil", NilPool, NilIP)
    /\ leased = {}
    /\ added = {}
    /\ calls = 0
    /\ Quiet

Next ==
    \/ \E pool \in AddPoolInputs : AddPool(pool)
    \/ \E masklen \in MasklenInputs : RequestPool(masklen, NilPool)
    \/ RequestPool(MaxMasklen, DenormPool)
    \/ \E pool \in LeaseInputs : ReleasePool(pool)
    \/ \E pool \in LeaseInputs, ip \in RequestAddrInputs : RequestAddress(pool, ip)
    \/ \E ip \in ReleaseAddrInputs : ReleaseAddress(ip)

Spec == Init /\ [][Next]_vars

\* ----------------------------------------- one pool, requests and releases

\* A single pool was added to a new allocator: a block of the caller's
\* range, or the whole address space.
BuddyRoots == NormPools \cup {[IP |-> <<0, 0, 0, 0>>, Mask |-> CIDRMask(0)]}

InitBuddy ==
    \E P \in BuddyRoots :
        /\ pools = AddPoolResult([i \in Slots |-> <<>>], P).pools
        /\ allocated = {}
        /\ updated = TRUE
        /\ last = Call("AddPool", -1, P, NilIP, "nil", NilPool, NilIP)
        /\ leased = {}
        /\ added = {P}
        /\ calls = 0
        /\ Quiet

\* The caller releases pools it holds, or one of the sample pools
NextBuddy ==
    \/ \E masklen \in MasklenInputs : RequestPool(masklen, NilPool)
    \/ \E pool \in LeaseInputs \cup {KeyPool(k) : k \in leased} : ReleasePool(pool)

SpecBuddy == InitBuddy /\ [][NextBuddy]_vars

\* ------------------------------------- the two halves of a pool, added back

\* Normalized pools of every prefix length a split accepts
SplitInputs ==
    {normalizePool([IP |-> ip, Mask |-> CIDRMask(l)]) :
        ip \in {AddrAt(2 ^ HostBits - 1), <<10, 200, 7, 254>>}, l \in 0..MaxMasklen}

Halves(P) == {splitPool(P)[1], splitPool(P)[2]}

NextSplit ==
    \/ /\ calls = 0
       /\ \E P \in SplitInputs : \E h \in Halves(P) : AddPool(h)
    \/ /\ calls = 1
       /\ \E P \in SplitInputs : \E h \in Halves(P) :
             /\ last.pool \in Halves(P)
             /\ h # last.pool
             /\ AddPool(h)

SpecSplit == Init /\ [][NextSplit]_vars

\* ------------------------------------ one leased pool, address calls only

\* A block of the caller's range was added to a new allocator and leased
\* whole by RequestPool.
InitLeased ==
    \E P \in NormPools :
        LET r == RequestPoolResult(AddPoolResult([i \in Slots |-> <<>>], P).pools,
                                   {}, Size(P.Mask).ones, NilPool)
        IN  /\ pools = r.pools
            /\ allocated = r.allocated
            /\ updated = TRUE
            /\ last = Call("RequestPool", Size(P.Mask).ones, NilPool, NilIP,
                           r.err, r.ret, NilIP)
            /\ leased = {PoolString(r.ret)}
            /\ added = {P}
            /\ calls = 0
            /\ Quiet

NextLeased ==
    \/ \E pool \in LeaseInputs, ip \in RequestAddrInputs : RequestAddress(pool, ip)
    \/ \E ip \in ReleaseAddrInputs : ReleaseAddress(ip)

SpecLeased == InitLeased /\ [][NextLeased]_vars

\* --------------------------------- concurrent callers and the autosave task

\* sync.RWMutex: Lock() waits for the writer and for every reader to leave
CanLock_IgnoreReaders(l) == l.w = 0

CanLock(l) == l.w = 0 /\ l.r = 0

\* RLock() waits for the writer to leave
CanRLock(l) == l.w = 0

\* Variant: the signal reaches nobody
Signal_Lost(sv) == sv

\* update.Signal(): a goroutine waiting on the condition is made runnable
\* and goes for the lock again (the end of Wait)
Signal(sv) == IF sv.pc = "waiting" THEN [sv EXCEPT !.pc = "start"] ELSE sv

\* signalUpdate() when sig, nothing otherwise
SignalIf(sig, sv) == IF sig THEN Signal(sv) ELSE sv

\* One pass of addPoolNoLock, up to its return or its recursive call
addPoolStep(ps, rawpool) ==
    LET pool == normalizePool(rawpool)
        masklen == Size(pool.Mask).ones
        stop(e) == [pools |-> ps, err |-> e, signal |-> FALSE,
                    again |-> FALSE, next |-> NilPool]
    IN  IF pool = NilPool \/ masklen >= NumSlots THEN stop("panic")
        ELSE LET s == ps[masklen]
                 i == FirstMatch(s, pool, masklen)
             IN  IF i = 0
                 THEN [pools |-> [ps EXCEPT ![masklen] = Append(s, pool)],
                       err |-> "nil", signal |-> TRUE,
                       again |-> FALSE, next |-> NilPool]
                 ELSE IF Equal(pool.IP, s[i].IP) THEN stop("DuplicatePool")
                 ELSE [pools |-> [ps EXCEPT ![masklen] = RemoveAt(s, i)],
                       err |-> "nil", signal |-> FALSE,
                       again |-> TRUE, next |-> expandPool(pool)]

\* The statement a call runs first once it holds the lock
FirstPc(op) ==
    CASE op = "AddPool" -> "add"
      [] op = "RequestPool" -> "pop"
      [] op = "ReleasePool" -> "check"
      [] OTHER -> "addr"

\* Dump(): the free pools of every slot in slot order, as text
RECURSIVE DumpFreeFrom(_, _)
DumpFreeFrom(ps, i) ==
    IF i >= NumSlots THEN <<>>
    ELSE [k \in 1..Len(ps[i]) |-> PoolString(ps[i][k])] \o DumpFreeFrom(ps, i + 1)

DumpFree(ps) == Bytes(DumpFreeFrom(ps, 0))

\* Variant: the dirty flag is left set when a save is started
autosaveCheck_FlagKept(upd) ==
    IF upd THEN [updated |-> TRUE, pc |-> "dump"]
    ELSE [updated |-> FALSE, pc |-> "waiting"]

\* for !a.updated { Wait() }; a.updated = false
autosaveCheck(upd) ==
    IF upd THEN [updated |-> FALSE, pc |-> "dump"]
    ELSE [updated |-> FALSE, pc |-> "waiting"]

\* --- a caller enters a call: the checks made before the lock is taken

CallAddPool(t, pool) ==
    /\ th[t].pc = "idle"
    /\ calls < MaxCalls
    /\ calls' = calls + 1
    /\ IF Len(pool.Mask) # IPv4len
       THEN /\ last' = Call("AddPool", -1, pool, NilIP, "InvalidAddressFamily",
                            NilPool, NilIP)
            /\ th' = th
       ELSE /\ last' = last
            /\ th' = [th EXCEPT ![t] = [IdleTh EXCEPT !.pc = "lock",
                         !.op = "AddPool", !.pool = pool, !.cur = pool]]
    /\ UNCHANGED <<pools, allocated, updated, leased, added,
                   lock, saver, file, saves, muts>>

CallRequestPool(t, masklen, reqpool) ==
    /\ th[t].pc = "idle"
    /\ calls < MaxCalls
    /\ calls' = calls + 1
    /\ IF reqpool # NilPool \/ masklen < 0 \/ masklen > MaxMasklen
       THEN /\ last' = Call("RequestPool", masklen, reqpool, NilIP,
                            IF reqpool # NilPool THEN "NotImplemented"
                            ELSE "InvalidMaskLength", NilPool, NilIP)
            /\ th' = th
       ELSE /\ last' = last
            /\ th' = [th EXCEPT ![t] = [IdleTh EXCEPT !.pc = "lock",
                         !.op = "RequestPool", !.masklen = masklen]]
    /\ UNCHANGED <<pools, allocated, updated, leased, added,
                   lock, saver, file, saves, muts>>

CallReleasePool(t, pool) ==
    /\ th[t].pc = "idle"
    /\ calls < MaxCalls
    /\ calls' = calls + 1
    /\ th' = [th EXCEPT ![t] = [IdleTh EXCEPT !.pc = "lock",
                 !.op = "ReleasePool", !.pool = pool]]
    /\ UNCHANGED <<pools, allocated, updated, last, leased, added,
                   lock, saver, file, saves, muts>>

CallRequestAddress(t, pool, ip) ==
    /\ th[t].pc = "idle"
    /\ calls < MaxCalls
    /\ calls' = calls + 1
    /\ th' = [th EXCEPT ![t] = [IdleTh EXCEPT !.pc = "lock",
                 !.op = "RequestAddress", !.pool = pool, !.ip = ip]]
    /\ UNCHANGED <<pools, allocated, updated, last, leased, added,
                   lock, saver, file, saves, muts>>

CallReleaseAddress(t, ip) ==
    /\ th[t].pc = "idle"
    /\ calls < MaxCalls
    /\ calls' = calls + 1
    /\ IF To4(ip) = NilIP
       THEN /\ last' = Call("ReleaseAddress", -1, NilPool, ip,
                            "InvalidAddressFamily", NilPool, NilIP)
            /\ th' = th
       ELSE /\ last' = last
            /\ th' = [th EXCEPT ![t] = [IdleTh EXCEPT !.pc = "lock",
                         !.op = "ReleaseAddress", !.ip = ip]]
    /\ UNCHANGED <<pools, allocated, updated, leased, added,
                   lock, saver, file, saves, muts>>

\* --- a.lock.Lock()

Lock(t) ==
    /\ th[t].pc = "lock"
    /\ CanLock(lock)
    /\ lock' = [lock EXCEPT !.w = t]
    /\ th' = [th EXCEPT ![t].pc = FirstPc(th[t].op),
                        ![t].p0 = pools, ![t].a0 = allocated]
    /\ UNCHANGED <<pools, allocated, updated, last, leased, added, calls,
                   saver, file, saves, muts>>

\* --- the statements run under the lock

\* addPoolNoLock, one pass (AddPool, and ReleasePool which drops its error)
StepAdd(t) ==
    LET r == addPoolStep(pools, th[t].cur)
    IN  /\ th[t].pc = "add"
        /\ pools' = r.pools
        /\ updated' = (updated \/ r.signal)
        /\ saver' = SignalIf(r.signal, saver)
        /\ th' = IF r.again
                 THEN [th EXCEPT ![t].cur = r.next]
                 ELSE [th EXCEPT ![t].err = r.err,
                                 ![t].pc = IF th[t].op = "ReleasePool" /\ r.err # "panic"
                                           THEN "delete" ELSE "unlock"]
        /\ UNCHANGED <<allocated, last, leased, added, calls,
                       lock, file, saves, muts>>

\* ReleasePool: if a.allocated[pool.String()]
StepCheck(t) ==
    /\ th[t].pc = "check"
    /\ th' = IF PoolString(th[t].pool) \in allocated
             THEN [th EXCEPT ![t].pc = "add", ![t].cur = th[t].pool]
             ELSE [th EXCEPT ![t].pc = "unlock", ![t].err = "PoolNotAllocated"]
    /\ UNCHANGED <<pools, allocated, updated, last, leased, added, calls,
                   lock, saver, file, saves, muts>>

\* ReleasePool: delete(a.allocated, pool.String()); a.signalUpdate()
StepDelete(t) ==
    /\ th[t].pc = "delete"
    /\ allocated' = allocated \ {PoolString(th[t].pool)}
    /\ updated' = TRUE
    /\ saver' = Signal(saver)
    /\ th' = [th EXCEPT ![t].pc = "unlock", ![t].err = "nil"]
    /\ UNCHANGED <<pools, last, leased, added, calls, lock, file, saves, muts>>

\* RequestPool: the scan and the pop of the head
StepPop(t) ==
    LET i == FindSlot(pools, th[t].masklen)
    IN  /\ th[t].pc = "pop"
        /\ IF i < 0
           THEN /\ pools' = pools
                /\ th' = [th EXCEPT ![t].pc = "unlock", ![t].err = "PoolExhausted"]
           ELSE /\ pools' = [pools EXCEPT ![i] = Tail(@)]
                /\ th' = [th EXCEPT ![t].pc = "split", ![t].i = i,
                                    ![t].cur = Head(pools[i])]
        /\ UNCHANGED <<allocated, updated, last, leased, added, calls,
                       lock, saver, file, saves, muts>>

\* RequestPool: one round of the split loop, or the statements after it
StepSplit(t) ==
    /\ th[t].pc = "split"
    /\ IF th[t].i < th[t].masklen
       THEN LET sp == splitPool(th[t].cur)
            IN  /\ pools' = [pools EXCEPT ![th[t].i + 1] = Append(@, sp[2])]
                /\ th' = [th EXCEPT ![t].cur = sp[1], ![t].i = th[t].i + 1]
                /\ UNCHANGED <<allocated, updated, saver>>
       ELSE /\ allocated' = allocated \cup {PoolString(th[t].cur)}
            /\ updated' = TRUE
            /\ saver' = Signal(saver)
            /\ th' = [th EXCEPT ![t].pc = "unlock", ![t].err = "nil",
                                ![t].retPool = th[t].cur]
            /\ pools' = pools
    /\ UNCHANGED <<last, leased, added, calls, lock, file, saves, muts>>

\* RequestAddress and ReleaseAddress: the body under the lock
StepAddr(t) ==
    /\ th[t].pc = "addr"
    /\ IF th[t].op = "RequestAddress"
       THEN LET r == RequestAddressResult(allocated, th[t].pool, th[t].ip)
            IN  /\ allocated' = r.allocated
                /\ updated' = (updated \/ r.signal)
                /\ saver' = SignalIf(r.signal, saver)
                /\ th' = [th EXCEPT ![t].pc = "unlock", ![t].err = r.err,
                                    ![t].retIP = r.ret]
       ELSE LET r == ReleaseAddressResult(allocated, th[t].ip)
            IN  /\ allocated' = r.allocated
                /\ updated' = (updated \/ r.signal)
                /\ saver' = SignalIf(r.signal, saver)
                /\ th' = [th EXCEPT ![t].pc = "unlock", ![t].err = r.err]
    /\ UNCHANGED <<pools, last, leased, added, calls, lock, file, saves, muts>>

\* --- the deferred a.lock.Unlock() and the return to the caller

Unlock(t) ==
    LET c == th[t]
        ok == c.err = "nil"
        key == CASE c.op = "RequestPool" -> PoolString(c.retPool)
                 [] c.op = "ReleasePool" -> PoolString(c.pool)
                 [] c.op = "RequestAddress" -> IPString(c.retIP)
                 [] OTHER -> IPString(c.ip)
    IN  /\ c.pc = "unlock"
        /\ lock' = [lock EXCEPT !.w = 0]
        /\ last' = Call(c.op, c.masklen, c.pool, c.ip, c.err, c.retPool, c.retIP)
        /\ leased' = IF ~ok THEN leased
                     ELSE IF c.op \in {"RequestPool", "RequestAddress"}
                     THEN leased \cup {key}
                     ELSE IF c.op \in {"ReleasePool", "ReleaseAddress"}
                     THEN leased \ {key}
                     ELSE leased
        /\ added' = IF ok /\ c.op = "AddPool"
                    THEN added \cup {normalizePool(c.pool)} ELSE added
        /\ muts' = IF ok THEN muts + 1 ELSE muts
        /\ th' = [u \in Threads |->
                    IF u = t THEN IdleTh
                    ELSE IF th[u].pc = "idle" \/ ~ok THEN th[u]
                    ELSE IF c.op \in {"RequestPool", "RequestAddress"}
                    THEN [th[u] EXCEPT !.during = @ \cup {key}]
                    ELSE IF c.op \in {"ReleasePool", "ReleaseAddress"}
                    THEN [th[u] EXCEPT !.during = @ \ {key}]
                    ELSE th[u]]
        /\ UNCHANGED <<pools, allocated, updated, calls, saver, file, saves>>

\* --- autosave

\* a.update.L.Lock(), at the top of the loop and at the end of Wait()
SaverLock ==
    /\ saver.pc = "start"
    /\ CanRLock(lock)
    /\ lock' = [lock EXCEPT !.r = lock.r + 1]
    /\ saver' = [saver EXCEPT !.pc = "check"]
    /\ UNCHANGED <<pools, allocated, updated, last, leased, added, calls,
                   th, file, saves, muts>>

\* The test of the flag: Wait() gives the lock up and sleeps; otherwise the
\* flag is cleared and the lock released
SaverCheck ==
    LET r == autosaveCheck(updated)
    IN  /\ saver.pc = "check"
        /\ updated' = r.updated
        /\ saver' = [saver EXCEPT !.pc = r.pc]
        /\ lock' = [lock EXCEPT !.r = lock.r - 1]
        /\ UNCHANGED <<pools, allocated, last, leased, added, calls,
                       th, file, saves, muts>>

\* save() -> Dump(): a.lock.RLock()
SaverDumpLock ==
    /\ saver.pc = "dump"
    /\ CanRLock(lock)
    /\ lock' = [lock EXCEPT !.r = lock.r + 1]
    /\ saver' = [saver EXCEPT !.pc = "readfree"]
    /\ UNCHANGED <<pools, allocated, updated, last, leased, added, calls,
                   th, file, saves, muts>>

\* Dump(): the loop over a.pools
SaverReadFree ==
    /\ saver.pc = "readfree"
    /\ saver' = [saver EXCEPT !.pc = "readalloc", !.free = DumpFree(pools)]
    /\ UNCHANGED <<pools, allocated, updated, last, leased, added, calls,
                   lock, th, file, saves, muts>>

\* Dump(): the loop over a.allocated, and the deferred RUnlock()
SaverReadAlloc ==
    /\ saver.pc = "readalloc"
    /\ saver' = [saver EXCEPT !.pc = "write", !.alloc = allocated]
    /\ lock' = [lock EXCEPT !.r = lock.r - 1]
    /\ UNCHANGED <<pools, allocated, updated, last, leased, added, calls,
                   th, file, saves, muts>>

\* save(): ioutil.WriteFile of the encoded dump
SaverWrite ==
    /\ saver.pc = "write"
    /\ file' = [free |-> saver.free, allocated |-> saver.alloc]
    /\ saves' = saves + 1
    /\ saver' = SaverStart
    /\ UNCHANGED <<pools, allocated, updated, last, leased, added, calls,
                   lock, th, muts>>

Saver ==
    \/ SaverLock
    \/ SaverCheck
    \/ SaverDumpLock
    \/ SaverReadFree
    \/ SaverReadAlloc
    \/ SaverWrite

\* --- what the concurrent callers ask for

\* The caller's block and its left half
ConcBlock == [IP |-> AddrAt(0), Mask |-> CIDRMask(32 - HostBits)]
ConcHalf == splitPool(ConcBlock)[1]

ConcAddInputs == {ConcBlock, ConcHalf, V6MaskPool}
ConcMasklenInputs == {Size(ConcHalf.Mask).ones, NumSlots}
ConcAddrInputs == {NilIP, AddrAt(1)}
ConcReleaseAddrInputs == {AddrAt(1), V6Addr}

Caller(t) ==
    \/ \E pool \in ConcAddInputs : CallAddPool(t, pool)
    \/ \E masklen \in ConcMasklenInputs : CallRequestPool(t, masklen, NilPool)
    \/ CallRequestPool(t, MaxMasklen, ConcHalf)
    \/ CallReleasePool(t, ConcHalf)
    \/ \E ip \in ConcAddrInputs : CallRequestAddress(t, ConcHalf, ip)
    \/ \E ip \in ConcReleaseAddrInputs : CallReleaseAddress(t, ip)
    \/ Lock(t)
    \/ StepAdd(t)
    \/ StepCheck(t)
    \/ StepDelete(t)
    \/ StepPop(t)
    \/ StepSplit(t)
    \/ StepAddr(t)
    \/ Unlock(t)

NextConc ==
    \/ \E t \in Threads : Caller(t)
    \/ Saver

\* The process at start-up: a new allocator to which main has added the
\* default block, before any request is served
InitConc ==
    /\ pools = AddPoolResult([i \in Slots |-> <<>>], ConcBlock).pools
    /\ allocated = {}
    /\ updated = TRUE
    /\ last = Call("AddPool", -1, ConcBlock, NilIP, "nil", NilPool, NilIP)
    /\ leased = {}
    /\ added = {ConcBlock}
    /\ calls = 1
    /\ lock = [w |-> 0, r |-> 0]
    /\ th = [t \in Threads |-> IdleTh]
    /\ saver = SaverStart
    /\ file = NoFile
    /\ saves = 0
    /\ muts = 1

SpecConc == InitConc /\ [][NextConc]_vars

\* The scheduler runs autosave whenever it can take a step
FairConc == SpecConc /\ WF_vars(Saver)

\* A call that has begun: Lock(), the statements under the lock and the
\* deferred Unlock()
Proceed(t) ==
    \/ Lock(t)
    \/ StepAdd(t)
    \/ StepCheck(t)
    \/ StepDelete(t)
    \/ StepPop(t)
    \/ StepSplit(t)
    \/ StepAddr(t)
    \/ Unlock(t)

\* The scheduler runs every goroutine that can take a step: autosave and
\* each caller inside a call.  When a call begins is left to the caller.
\* One request of each kind, about the left half of the caller's block
CallerOnce(t) ==
    \/ CallAddPool(t, ConcHalf)
    \/ CallRequestPool(t, Size(ConcHalf.Mask).ones, NilPool)
    \/ CallReleasePool(t, ConcHalf)
    \/ CallRequestAddress(t, ConcHalf, NilIP)
    \/ CallReleaseAddress(t, AddrAt(1))
    \/ Proceed(t)

NextLive ==
    \/ \E t \in Threads : CallerOnce(t)
    \/ Saver

SpecLive == InitConc /\ [][NextLive]_vars

\* Proceed(t) can take a step: the call holds the lock, or it is at Lock()
\* and the lock is free
Runnable(t) ==
    \/ th[t].pc \notin {"idle", "lock"}
    \/ th[t].pc = "lock" /\ CanLock(lock)

\* The scheduler runs every goroutine that can take a step: autosave and
\* each caller inside a call (weak fairness of Proceed(t), its enabling
\* condition written out).  When a call begins is left to the caller.
FairLive ==
    /\ SpecLive
    /\ WF_vars(Saver)
    /\ \A t \in Threads : []<>(~Runnable(t)) \/ []<><<Proceed(t)>>_vars

\* ------------------------------------------ snapshots: Dump, save and load

\* Dump(): dump["free"] in slot order and the keys of a.allocated.  gob
\* writes and reads back the same strings; the order of the allocated list
\* is that of a map iteration and load() makes a set of it again.
Dump(ps, alloc) == [free |-> DumpFree(ps), allocated |-> alloc]

\* net.ParseCIDR(str): the text of a v4 CIDR spells four numbers 0..255 and
\* a length 0..32, that of a v6 CIDR sixteen bytes and a length 0..128; any
\* other text is a parse error.  The IPNet returned holds the masked address.
ParseCIDR(str) ==
    LET n == Len(str) - 1
        ok == /\ n \in {IPv4len, IPv6len}
              /\ \A k \in 1..n : str[k] \in 0..255
              /\ str[n + 1] \in 0..(8 * n)
    IN  IF ~ok THEN [err |-> "ParseError", pool |-> NilPool]
        ELSE LET m == Bytes([k \in 1..n |-> MaskByte(str[n + 1], k)])
             IN  [err |-> "nil",
                  pool |-> [IP |-> And(SubSeq(str, 1, n), m), Mask |-> m]]

\* Variant: load() keeps the pools the allocator held
loadStart_KeepPrior(ps) == ps

\* a.init() in load(): a.pools = make([][]*net.IPNet, 32)
loadStart(ps) == [i \in Slots |-> <<>>]

\* The first loop of load(): each free string is parsed, normalized and
\* appended to the slot of its mask length.  A string that does not parse,
\* or is not v4, ends the load with an error; a /32 indexes a.pools[32].
RECURSIVE loadFree(_, _, _)
loadFree(ps, free, k) ==
    IF k > Len(free) THEN [pools |-> ps, err |-> "nil"]
    ELSE LET parsed == ParseCIDR(free[k])
             pool == normalizePool(parsed.pool)
             masklen == Size(pool.Mask).ones
         IN  IF parsed.err # "nil" THEN [pools |-> ps, err |-> "CorruptSnapshot"]
             ELSE IF pool = NilPool THEN [pools |-> ps, err |-> "CorruptSnapshot"]
             ELSE IF masklen >= NumSlots THEN [pools |-> ps, err |-> "panic"]
             ELSE loadFree([ps EXCEPT ![masklen] = Append(@, pool)], free, k + 1)

\* Variant: only the keys of pools are restored
loadAllocated_PoolsOnly(strs) == {s \in strs : Len(s) = IPv4len + 1}

\* The second loop of load(): a.allocated[str] = true for every string
loadAllocated(strs) == strs

\* load(): written says that localBackup exists.  Without it ReadFile fails
\* before anything is changed; otherwise init() resets the allocator and
\* the dump is loaded, as far as the first error.
load(ps, alloc, upd, written, dump) ==
    IF ~written
    THEN [pools |-> ps, allocated |-> alloc, updated |-> upd, err |-> "NoSnapshot"]
    ELSE LET f == loadFree(loadStart(ps), dump.free, 1)
         IN  [pools |-> f.pools,
              allocated |-> IF f.err = "nil" THEN loadAllocated(dump.allocated) ELSE {},
              updated |-> FALSE,
              err |-> f.err]

\* a.load() on the allocator
Load ==
    LET r == load(pools, allocated, updated, saves > 0, file)
    IN  /\ calls < MaxCalls
        /\ pools' = r.pools
        /\ allocated' = r.allocated
        /\ updated' = r.updated
        /\ last' = Call("Load", -1, NilPool, NilIP, r.err, NilPool, NilIP)
        /\ leased' = IF r.err = "NoSnapshot" THEN leased ELSE r.allocated
        /\ added' = added
        /\ calls' = calls + 1
        /\ UNCHANGED <<lock, th, saver, file, saves, muts>>

\* One round of autosave with no caller in a call: the flag is cleared and
\* the dump written
Autosave ==
    /\ updated
    /\ updated' = autosaveCheck(updated).updated
    /\ file' = Dump(pools, allocated)
    /\ saves' = saves + 1
    /\ UNCHANGED <<pools, allocated, last, leased, added, calls, lock, th, saver, muts>>

\* localBackup is written by someone else (it lies in os.TempDir())
WriteBackup(dump) ==
    /\ calls < MaxCalls
    /\ file' = dump
    /\ saves' = saves + 1
    /\ last' = Call("WriteBackup", -1, NilPool, NilIP, "nil", NilPool, NilIP)
    /\ calls' = calls + 1
    /\ UNCHANGED <<pools, allocated, updated, leased, added, lock, th, saver, muts>>

\* The texts "172.16.0.0/31", "172.16.0.2/31", "172.16.0.1/31" (a host bit
\* set), "172.16.0.0/32", "172.16.0.0/33", "2001:db8::1/64" and "172.16.0.1"
TextLeft == <<172, 16, 0, 0, 31>>
TextRight == <<172, 16, 0, 2, 31>>
TextDenorm == <<172, 16, 0, 1, 31>>
TextHost == <<172, 16, 0, 0, 32>>
TextBadLen == <<172, 16, 0, 0, 33>>
TextV6 == Append(V6Addr, 64)
TextAddr == <<172, 16, 0, 1>>

\* Files found at localBackup: well-formed dumps (one with two buddies, one
\* with an address whose host bits are set), and dumps with a string that
\* is no v4 CIDR in the free list or no v4 address in the allocated list
SnapshotInputs ==
    { [free |-> <<TextLeft, TextRight>>, allocated |-> {TextAddr}],
      [free |-> <<TextDenorm>>, allocated |-> {TextRight}],
      [free |-> <<TextLeft, TextBadLen>>, allocated |-> {TextAddr}],
      [free |-> <<TextV6>>, allocated |-> {}],
      [free |-> <<TextAddr>>, allocated |-> {}],
      [free |-> <<TextRight, TextHost>>, allocated |-> {}],
      [free |-> <<TextLeft>>, allocated |-> {TextBadLen, <<>>}] }

StoreAddInputs == {ConcBlock, ConcHalf, [IP |-> AddrAt(0), Mask |-> CIDRMask(32)]}

NextStore ==
    \/ \E pool \in StoreAddInputs : AddPool(pool)
    \/ RequestPool(Size(ConcHalf.Mask).ones, NilPool)
    \/ ReleasePool(ConcHalf)
    \/ RequestAddress(ConcHalf, AddrAt(1))
    \/ ReleaseAddress(AddrAt(1))
    \/ Autosave
    \/ Load
    \/ \E dump \in SnapshotInputs : WriteBackup(dump)

\* A new allocator, its calls, autosave and load
SpecStore == Init /\ [][NextStore]_vars

\* ------------------------------------------------ the driver's RequestPool

DefaultMaskLength == 28

\* DefaultPools: 172.16.0.0/16
DefaultPool == [IP |-> <<172, 16, 0, 0>>, Mask |-> CIDRMask(16)]

\* An option value is a text: the sequence of its characters
DigitChars == <<"0", "1", "2", "3", "4", "5", "6", "7", "8", "9">>

IsDigit(c) == \E d \in 1..10 : DigitChars[d] = c

DigitVal(c) == (CHOOSE d \in 1..10 : DigitChars[d] = c) - 1

\* The value of the first n digits of a text of digits
RECURSIVE DecVal(_, _)
DecVal(s, n) == IF n = 0 THEN 0 ELSE 10 * DecVal(s, n - 1) + DigitVal(s[n])

\* strconv.Atoi(val): an optional sign, then one or more decimal digits
Atoi(s) ==
    LET signed == Len(s) > 0 /\ s[1] \in {"+", "-"}
        body == IF signed THEN Tail(s) ELSE s
    IN  IF Len(body) = 0 \/ \E k \in 1..Len(body) : ~IsDigit(body[k])
        THEN [err |-> "InvalidSyntax", val |-> 0]
        ELSE [err |-> "nil",
              val |-> IF signed /\ s[1] = "-" THEN 0 - DecVal(body, Len(body))
                      ELSE DecVal(body, Len(body))]

\* Variant: the option is never read
DriverMasklen_AlwaysDefault(opt) == [err |-> "nil", val |-> DefaultMaskLength]

\* val, found := req.Options[CidrMaskLength]; Atoi(val) or DefaultMaskLength
DriverMasklen(opt) ==
    IF opt.found THEN Atoi(opt.val)
    ELSE [err |-> "nil", val |-> DefaultMaskLength]

\* Variant: the "global" address space is served by the local allocator
asToAllocator_GlobalIsLocal(as) ==
    CASE as = "null" -> "NilAllocator"
      [] as \in {"local", "global"} -> "nil"
      [] OTHER -> "AddrSpaceNotFound"

\* asToAllocator, for a driver with Local set and Global nil: AddrSpace of
\* the nil allocator is NilAS
asToAllocator(as) ==
    CASE as = "null" -> "NilAllocator"
      [] as = "local" -> "nil"
      [] OTHER -> "AddrSpaceNotFound"

\* Driver.RequestPool: asked is the mask length passed to the allocator
\* (-1 when the allocator is not called)
DriverRequestPoolResult(ps, alloc, req) ==
    LET fail(e) == [pools |-> ps, allocated |-> alloc, err |-> e,
                    ret |-> NilPool, signal |-> FALSE, asked |-> -1]
        conv == DriverMasklen(req.Options)
    IN  IF req.V6 THEN fail("UnsupportedIPv6")
        ELSE IF req.Pool # "" \/ req.SubPool # "" THEN fail("UnsupportedPoolReq")
        ELSE IF asToAllocator(req.AddressSpace) # "nil"
        THEN fail(asToAllocator(req.AddressSpace))
        ELSE IF conv.err # "nil" THEN fail(conv.err)
        ELSE LET r == RequestPoolResult(ps, alloc, conv.val, NilPool)
             IN  [pools |-> r.pools, allocated |-> r.allocated,
                  err |-> IF r.err = "nil" THEN "nil" ELSE "InternalError",
                  ret |-> r.ret, signal |-> r.signal, asked |-> conv.val]

DriverRequestPool(req) ==
    LET r == DriverRequestPoolResult(pools, allocated, req)
    IN  /\ calls < MaxCalls
        /\ pools' = r.pools
        /\ allocated' = r.allocated
        /\ updated' = (updated \/ r.signal)
        /\ last' = Call("Driver.RequestPool", r.asked, NilPool, NilIP, r.err, r.ret, NilIP)
        /\ leased' = IF r.err = "nil" THEN leased \cup {PoolString(r.ret)} ELSE leased
        /\ added' = added
        /\ calls' = calls + 1
        /\ UNCHANGED cvars

\* --- what docker asks of the driver

NoOption == [found |-> FALSE, val |-> <<>>]

Option(text) == [found |-> TRUE, val |-> text]

\* "24", "31", "+28", "016", "0", "32", "-1", "", "2x" and "24.0"
OptionInputs ==
    { NoOption, Option(<<"2", "4">>), Option(<<"3", "1">>),
      Option(<<"+", "2", "8">>), Option(<<"0", "1", "6">>), Option(<<"0">>),
      Option(<<"3", "2">>), Option(<<"-", "1">>), Option(<<>>),
      Option(<<"2", "x">>), Option(<<"2", "4", ".", "0">>) }

Request(v6, pool, as, opt) ==
    [V6 |-> v6, Pool |-> pool, SubPool |-> "", AddressSpace |-> as, Options |-> opt]

\* Requests to the local address space with every option, and one request
\* for each check made before the option is read
DriverRequests ==
    {Request(FALSE, "", "local", opt) : opt \in OptionInputs}
        \cup { Request(TRUE, "", "local", NoOption),
               Request(FALSE, "10.0.0.0/8", "local", NoOption),
               Request(FALSE, "", "null", NoOption),
               Request(FALSE, "", "global", NoOption) }

\* The default block, a block of its size that is not its buddy, and its
\* first /24
DriverAddInputs ==
    { DefaultPool,
      [IP |-> <<172, 18, 0, 0>>, Mask |-> CIDRMask(16)],
      [IP |-> <<172, 16, 0, 0>>, Mask |-> CIDRMask(24)] }

\* Mask lengths asked of the allocator directly: /24 as in the README's
\* example, the size of the default block, and one size larger
DriverMasklenInputs == {15, 16, 24}

NextDriver ==
    \/ \E pool \in DriverAddInputs : AddPool(pool)
    \/ \E masklen \in DriverMasklenInputs : RequestPool(masklen, NilPool)
    \/ \E req \in DriverRequests : DriverRequestPool(req)
    \/ \E k \in leased : ReleasePool(KeyPool(k))

\* A new allocator behind the driver
SpecDriver == Init /\ [][NextDriver]_vars

\* ------------------------------------------- the functions called directly

\* A program that only calls a function: last holds the arguments and the
\* result, the allocator is new and untouched
PureInit(c) ==
    /\ pools = [i \in Slots |-> <<>>]
    /\ allocated = {}
    /\ updated = FALSE
    /\ last = c
    /\ leased = {}
    /\ added = {}
    /\ calls = 0
    /\ Quiet

PureStep(c) ==
    /\ last' = c
    /\ UNCHANGED <<pools, allocated, updated, leased, added, calls, cvars>>

\* --- package bytop: Add and FlipBit

\* Bytes at both ends of the range, where a carry starts or stops
EdgeBytes == {0, 254, 255}

BytopInputs ==
    {<<b>> : b \in EdgeBytes}
        \cup {<<a, b, c, d>> : a \in EdgeBytes, b \in EdgeBytes,
                               c \in EdgeBytes, d \in EdgeBytes}

InitBytop ==
    \E s \in BytopInputs : \E index \in 0..(8 * Len(s) - 1) :
        PureInit(Call("input", index, NilPool, s, "nil", NilPool, s))

\* bytop.Add(ip, 1, ip) on a 4-byte slice
CallAdd ==
    /\ last.op = "input"
    /\ Len(last.ip) = IPv4len
    /\ LET r == Add(last.ip, 1)
       IN  PureStep(Call("Add", 1, NilPool, last.ip,
                         IF r.panicked THEN "panic" ELSE "nil", NilPool, r.dst))

\* bytop.FlipBit(index, s), and once more on the result
CallFlipBit ==
    /\ last.op \in {"input", "FlipBit"}
    /\ PureStep(Call(IF last.op = "input" THEN "FlipBit" ELSE "FlipBit.FlipBit",
                     last.masklen, NilPool, last.ip, "nil", NilPool,
                     FlipBit(last.masklen, last.retIP)))

NextBytop == CallAdd \/ CallFlipBit

SpecBytop == InitBytop /\ [][NextBytop]_vars

\* --- adjacentPool, expandPool and splitPool

\* Normalized pools of every prefix length that has a buddy
PoolOpInputs ==
    {normalizePool([IP |-> ip, Mask |-> CIDRMask(l)]) :
        ip \in {AddrAt(2 ^ HostBits - 1), <<10, 200, 7, 254>>}, l \in 1..32}

InitPoolOps ==
    \E P \in PoolOpInputs :
        PureInit(Call("input", -1, P, NilIP, "nil", P, NilIP))

\* adjacentPool of the input, and of its result
CallAdjacent ==
    /\ last.op \in {"input", "adjacent"}
    /\ PureStep(Call(IF last.op = "input" THEN "adjacent" ELSE "adjacent.adjacent",
                     -1, last.pool, NilIP, "nil", adjacentPool(last.retPool), NilIP))

\* expandPool of the input, or of its buddy
CallExpand ==
    /\ last.op \in {"input", "adjacent"}
    /\ PureStep(Call(IF last.op = "input" THEN "expand" ELSE "adjacent.expand",
                     -1, last.pool, NilIP, "nil", expandPool(last.retPool), NilIP))

\* splitPool of the expanded input: the caller looks at one of the halves
CallSplit ==
    /\ last.op = "expand"
    /\ \E h \in 1..2 :
          PureStep(Call("expand.split", h, last.pool, NilIP, "nil",
                        splitPool(last.retPool)[h], NilIP))

NextPoolOps == CallAdjacent \/ CallExpand \/ CallSplit

SpecPoolOps == InitPoolOps /\ [][NextPoolOps]_vars

\* --- poolOverlap

\* Blocks around and beside the caller's range
WidePools ==
    {[IP |-> <<0, 0, 0, 0>>, Mask |-> CIDRMask(0)],
     [IP |-> <<172, 16, 0, 0>>, Mask |-> CIDRMask(16)],
     [IP |-> <<10, 0, 0, 0>>, Mask |-> CIDRMask(8)]}

\* The arguments of poolOverlap: IPv4 pools, or nil
OverlapInputs == NormPools \cup HostPools \cup WidePools \cup {DenormPool, NilPool}

BoolText(b) == IF b THEN "true" ELSE "false"

InitOverlap ==
    \E a \in OverlapInputs, b \in OverlapInputs :
        PureInit(Call("input", -1, a, NilIP, "nil", b, NilIP))

\* poolOverlap(a, b)
CallOverlaps ==
    /\ last.op = "input"
    /\ PureStep(Call("Overlaps", -1, last.pool, NilIP,
                     BoolText(poolOverlap(last.pool, last.retPool)), last.retPool, NilIP))

\* poolOverlap(b, a), next to the answer for (a, b)
CallOverlapsSwapped ==
    /\ last.op = "Overlaps"
    /\ PureStep(Call("Overlaps.swapped", IF last.err = "true" THEN 1 ELSE 0, last.pool, NilIP,
                     BoolText(poolOverlap(last.retPool, last.pool)), last.retPool, NilIP))

NextOverlap == CallOverlaps \/ CallOverlapsSwapped

SpecOverlap == InitOverlap /\ [][NextOverlap]_vars

\* ------------------------------------------ the driver's other handlers

\* A pool ID as docker sends it back: the text before the separator, the
\* separator, and the CIDR text after it
PoolId(as, cidr) == [as |-> as, sep |-> ":", cidr |-> cidr]

\* idToPool: poolIdRe finds word ':' cidr-characters, and net.ParseCIDR reads
\* the second group.  Without a match, or when the group is no CIDR, the
\* pool is nil.  The group cannot hold a ':', so of a v6 text only the
\* first digits are matched and ParseCIDR fails on them.
idToPool(id) ==
    LET miss == [as |-> "", pool |-> NilPool]
    IN  IF id.sep # ":" \/ id.as = "" \/ Len(id.cidr) = 0 THEN miss
        ELSE IF Len(id.cidr) - 1 # IPv4len THEN miss
        ELSE LET parsed == ParseCIDR(id.cidr)
             IN  IF parsed.err # "nil" THEN miss
                 ELSE [as |-> id.as, pool |-> parsed.pool]

\* net.ParseIP: the 16-byte form of a dotted v4 text, the bytes of a v6
\* text, nil for anything else (the empty text included)
ParseIP(str) ==
    IF Len(str) \in {IPv4len, IPv6len} /\ \A k \in 1..Len(str) : str[k] \in 0..255
    THEN IF Len(str) = IPv4len THEN Mapped(str) ELSE str
    ELSE NilIP

\* types.InternalErrorf around an error of the allocator; a fault unwinds
InternalError(e) == IF e \in {"nil", "panic"} THEN e ELSE "InternalError"

DriverReleasePool(req) ==
    LET id == idToPool(req.PoolID)
        a == asToAllocator(id.as)
        reject == IF id.pool = NilPool THEN "ParseID" ELSE a
        r == ReleasePoolResult(pools, allocated, id.pool)
    IN  /\ calls < MaxCalls
        /\ calls' = calls + 1
        /\ added' = added
        /\ IF reject # "nil"
           THEN /\ last' = Call("Driver.ReleasePool", -1, id.pool, NilIP, reject,
                                NilPool, NilIP)
                /\ UNCHANGED <<pools, allocated, updated, leased>>
           ELSE /\ pools' = r.pools
                /\ allocated' = r.allocated
                /\ updated' = (updated \/ r.signal)
                /\ last' = Call("Driver.ReleasePool", -1, id.pool, NilIP,
                                InternalError(r.err), NilPool, NilIP)
                /\ leased' = IF r.err = "nil" THEN leased \ {PoolString(id.pool)}
                             ELSE leased
        /\ UNCHANGED cvars

DriverRequestAddress(req) ==
    LET id == idToPool(req.PoolID)
        a == asToAllocator(id.as)
        ip == IF req.Address # <<>> THEN ParseIP(req.Address) ELSE NilIP
        reject == IF id.pool = NilPool THEN "ParseID"
                  ELSE IF a # "nil" THEN a
                  ELSE IF req.Address # <<>> /\ ip = NilIP THEN "ParseIP"
                  ELSE "nil"
        r == RequestAddressResult(allocated, id.pool, ip)
    IN  /\ calls < MaxCalls
        /\ calls' = calls + 1
        /\ added' = added
        /\ pools' = pools
        /\ IF reject # "nil"
           THEN /\ last' = Call("Driver.RequestAddress", -1, id.pool, NilIP, reject,
                                NilPool, NilIP)
                /\ UNCHANGED <<allocated, updated, leased>>
           ELSE /\ allocated' = r.allocated
                /\ updated' = (updated \/ r.signal)
                /\ last' = Call("Driver.RequestAddress", -1, id.pool, ip,
                                InternalError(r.err),
                                IF r.err = "nil"
                                THEN [IP |-> r.ret, Mask |-> id.pool.Mask]
                                ELSE NilPool,
                                r.ret)
                /\ leased' = IF r.err = "nil" THEN leased \cup {IPString(r.ret)}
                             ELSE leased
        /\ UNCHANGED cvars

DriverReleaseAddress(req) ==
    LET id == idToPool(req.PoolID)
        a == asToAllocator(id.as)
        ip == ParseIP(req.Address)
        reject == IF id.pool = NilPool THEN "ParseID"
                  ELSE IF a # "nil" THEN a
                  ELSE IF ip = NilIP THEN "ParseIP"
                  ELSE "nil"
        r == ReleaseAddressResult(allocated, ip)
    IN  /\ calls < MaxCalls
        /\ calls' = calls + 1
        /\ added' = added
        /\ pools' = pools
        /\ IF reject # "nil"
           THEN /\ last' = Call("Driver.ReleaseAddress", -1, id.pool, NilIP, reject,
                                NilPool, NilIP)
                /\ UNCHANGED <<allocated, updated, leased>>
           ELSE /\ allocated' = r.allocated
                /\ updated' = (updated \/ r.signal)
                /\ last' = Call("Driver.ReleaseAddress", -1, id.pool, ip,
                                InternalError(r.err), NilPool, NilIP)
                /\ leased' = IF r.err = "nil" THEN leased \ {IPString(ip)}
                             ELSE leased
        /\ UNCHANGED cvars

\* --- what docker asks of the plugin

\* The first two /28 of the default block, a length that is none, a v6 text
PluginCidrTexts ==
    {<<172, 16, 0, 0, 28>>, <<172, 16, 0, 16, 28>>, <<172, 16, 0, 0, 33>>, TextV6}

\* IDs the driver gave out, the same under other address spaces, and
\* texts that are no ID: no word before the separator, no separator
PluginPoolIds ==
    {PoolId("local", c) : c \in PluginCidrTexts}
        \cup { PoolId("null", <<172, 16, 0, 0, 28>>),
               PoolId("global", <<172, 16, 0, 0, 28>>),
               PoolId("", <<172, 16, 0, 0, 28>>),
               [as |-> "local", sep |-> "", cidr |-> <<172, 16, 0, 0, 28>>] }

\* "", "172.16.0.1", "172.16.0.17", "172.16.0.256", "172.16.0" and a v6 text
PluginAddressTexts ==
    {<<>>, <<172, 16, 0, 1>>, <<172, 16, 0, 17>>, <<172, 16, 0, 256>>,
     <<172, 16, 0>>, V6Addr}

IdRequest(id, address) == [PoolID |-> id, Address |-> address]

PluginIdRequests == {IdRequest(id, a) : id \in PluginPoolIds, a \in PluginAddressTexts}

\* ReleasePool reads the pool ID only
PluginReleaseRequests == {IdRequest(id, <<>>) : id \in PluginPoolIds}

PluginPoolRequests ==
    { Request(FALSE, "", "local", NoOption),
      Request(FALSE, "", "local", Option(<<"2", "x">>)),
      Request(TRUE, "", "local", NoOption),
      Request(FALSE, "10.0.0.0/8", "local", NoOption),
      [Request(FALSE, "", "local", NoOption) EXCEPT !.SubPool = "172.16.1.0/24"],
      Request(FALSE, "", "null", NoOption),
      Request(FALSE, "", "global", NoOption),
      Request(FALSE, "", "", NoOption) }

NextPlugin ==
    \/ \E req \in PluginPoolRequests : DriverRequestPool(req)
    \/ \E req \in PluginReleaseRequests : DriverReleasePool(req)
    \/ \E req \in PluginIdRequests : DriverRequestAddress(req)
    \/ \E req \in PluginIdRequests : DriverReleaseAddress(req)

\* main when no snapshot was loaded: a new allocator with DefaultPools
\* added, Local of the driver; Global is nil
InitPlugin ==
    /\ pools = AddPoolResult([i \in Slots |-> <<>>], DefaultPool).pools
    /\ allocated = {}
    /\ updated = TRUE
    /\ last = Call("AddPool", -1, DefaultPool, NilIP, "nil", NilPool, NilIP)
    /\ leased = {}
    /\ added = {DefaultPool}
    /\ calls = 0
    /\ Quiet

SpecPlugin == InitPlugin /\ [][NextPlugin]_vars

\* ------------------------------------------------- what the claims speak of

\* Bit k of an address, counted from the most significant bit of byte 0
Bit(ip, k) == (ip[(k \div 8) + 1] \div (2 ^ (7 - (k % 8)))) % 2

PrefixLen(pool) == Size(pool.Mask).ones

\* The address ranges of two pools intersect: they agree on every bit both
\* prefixes fix
RangesMeet(p, q) ==
    \A k \in 0..(Min2(PrefixLen(p), PrefixLen(q)) - 1) : Bit(p.IP, k) = Bit(q.IP, k)

\* The range of q lies inside the range of p
RangeInside(q, p) ==
    /\ PrefixLen(p) <= PrefixLen(q)
    /\ \A k \in 0..(PrefixLen(p) - 1) : Bit(p.IP, k) = Bit(q.IP, k)

\* A 4-byte address lies in the range of p
AddrInside(ip, p) ==
    /\ Len(ip) = IPv4len
    /\ \A k \in 0..(PrefixLen(p) - 1) : Bit(p.IP, k) = Bit(ip, k)

\* All host bits of the pool's address are zero
IsNormalized(p) == \A k \in PrefixLen(p)..31 : Bit(p.IP, k) = 0

FreeSet(ps) == UNION {{ps[i][k] : k \in 1..Len(ps[i])} : i \in Slots}

RECURSIVE CountFrom(_, _)
CountFrom(ps, i) == IF i >= NumSlots THEN 0 ELSE Len(ps[i]) + CountFrom(ps, i + 1)

\* Number of entries in the free structure
FreeCount(ps) == CountFrom(ps, 0)

IsPoolKey(k) == Len(k) = IPv4len + 1
IsAddrKey(k) == Len(k) = IPv4len

\* ------------------------------------------------------------------ C1
\* C1: in every reachable state no two pools held in the free structure, in
\* the same slot or in different slots, have overlapping address ranges.
C1_NoOverlap ==
    \A i \in Slots, j \in Slots :
        \A k \in 1..Len(pools[i]), m \in 1..Len(pools[j]) :
            (i # j \/ k # m) => ~RangesMeet(pools[i][k], pools[j][m])

\* ------------------------------------------------------------------ C2
\* C2: once RequestPool has returned a pool with key K, no later RequestPool
\* returns a pool with key K until a ReleasePool for K has succeeded,
\* whatever calls are made in between.
C2_PoolExclusive ==
    [][ (last'.op = "RequestPool" /\ last'.err = "nil")
            => PoolString(last'.retPool) \notin leased ]_vars

\* ------------------------------------------------------------------ C3
\* C3: an address A that a RequestAddress returned is not returned again,
\* by a request naming it or by an automatic one, until ReleaseAddress(A)
\* succeeds: a request naming it fails, with AddressUnavailable when the
\* pool is leased (an unleased pool is refused first, with
\* PoolNotAllocated); a request naming ip succeeds only if the pool
\* contains ip and ip is not in the allocated set; and a leased address
\* stays in the allocated set until its release.
C3_AddressExclusive ==
    [][ /\ (last'.op = "RequestAddress" /\ last'.err = "nil")
            => /\ IPString(last'.retIP) \notin leased
               /\ IPString(last'.retIP) \notin allocated
               /\ last'.ip # NilIP
                    => /\ last'.retIP = last'.ip
                       /\ AddrInside(To4(last'.ip), last'.pool)
        /\ (last'.op = "RequestAddress" /\ last'.ip # NilIP
                /\ IPString(last'.ip) \in leased)
            => /\ last'.err # "nil"
               /\ PoolString(last'.pool) \in allocated
                    => last'.err = "AddressUnavailable"
        /\ \A a \in leased :
              (IsAddrKey(a) /\ ~(last'.op = "ReleaseAddress" /\ last'.err = "nil"
                                  /\ IPString(last'.ip) = a))
                => a \in allocated' ]_vars

\* C3 witness: a request naming an address of the pool that is still leased
\* has just been refused.
C3_Witness ==
    /\ last.op = "RequestAddress"
    /\ last.err = "AddressUnavailable"
    /\ last.ip # NilIP
    /\ IPString(last.ip) \in leased
    /\ AddrInside(To4(last.ip), last.pool)

\* ------------------------------------------------------------------ C4
\* C4: a successful RequestPool(n) returns a normalized pool of prefix
\* length exactly n, whose range lies inside a pool that was free
\* immediately before the call, and whose key is in the allocated set when
\* the call returns.
C4_RequestPoolResult ==
    [][ (last'.op = "RequestPool" /\ last'.err = "nil")
            => /\ last'.retPool.Mask = CIDRMask(last'.masklen)
               /\ Len(last'.retPool.IP) = IPv4len
               /\ IsNormalized(last'.retPool)
               /\ \E p \in FreeSet(pools) : RangeInside(last'.retPool, p)
               /\ PoolString(last'.retPool) \in allocated' ]_vars

\* C4 witness: a /31 was carved out of a larger block, leaving a right half
\* in the slot it was returned from.
C4_Witness ==
    /\ last.op = "RequestPool"
    /\ last.err = "nil"
    /\ last.masklen = MaxMasklen
    /\ \E r \in FreeSet(pools) :
          /\ PrefixLen(r) = MaxMasklen
          /\ r # last.retPool
          /\ RangesMeet(expandPool(r), last.retPool)
    /\ PoolString(last.retPool) \in allocated

\* ------------------------------------------------------------------ C5
\* C5: with a single pool P added, whenever every leased pool has been
\* released again the free structure holds exactly one entry, P.
C5_BuddyMerge ==
    (leased = {}) => (FreeCount(pools) = 1 /\ FreeSet(pools) = added)

\* C5 witness: the last pool out was released and lay at least two sizes
\* below P, so the merge ran up through two slots.
C5_Witness ==
    /\ leased = {}
    /\ last.op = "ReleasePool"
    /\ last.err = "nil"
    /\ \E P \in added : PrefixLen(last.pool) >= PrefixLen(P) + 2
    /\ FreeSet(pools) = added

\* ------------------------------------------------------------------ C6
\* C6: for every normalized pool P of prefix length below 32 with
\* Split(P) = (L, R): Expand(L) = Expand(R) = P, and AddPool(L), AddPool(R)
\* in either order on an empty allocator leave exactly one free entry, P.
C6_SplitMergeInverse ==
    /\ \A P \in SplitInputs :
          expandPool(splitPool(P)[1]) = P /\ expandPool(splitPool(P)[2]) = P
    /\ (calls = 2) =>
          /\ last.err = "nil"
          /\ \E P \in SplitInputs :
                /\ last.pool \in Halves(P)
                /\ FreeCount(pools) = 1
                /\ FreeSet(pools) = {P}

\* ------------------------------------------------------------------ C7
\* C7: ReleasePool(P) with P's key not in the allocated set fails with
\* PoolNotAllocated and leaves the free structure and the allocated set as
\* they were; with the key present it succeeds, removes exactly that key,
\* and P's range is free afterwards (so the next ReleasePool(P) fails).
C7_ReleasePool ==
    [][ last'.op = "ReleasePool" =>
          IF PoolString(last'.pool) \notin allocated
          THEN /\ last'.err = "PoolNotAllocated"
               /\ pools' = pools
               /\ allocated' = allocated
          ELSE /\ last'.err = "nil"
               /\ allocated' = allocated \ {PoolString(last'.pool)}
               /\ \E f \in FreeSet(pools') : RangeInside(last'.pool, f) ]_vars

\* C7 witness: a release has succeeded and the pool went back merged into a
\* larger free block.
C7_Witness ==
    /\ last.op = "ReleasePool"
    /\ last.err = "nil"
    /\ PoolString(last.pool) \notin allocated
    /\ last.pool \notin FreeSet(pools)
    /\ \E f \in FreeSet(pools) : RangeInside(last.pool, f)

\* ------------------------------------------------------------------ C8
\* C8: the allocated set holds exactly the keys returned by successful
\* requests and not since removed by a successful matching release; only a
\* successful request or release changes it; a release of an absent key
\* returns an error.
C8_Lifecycle ==
    /\ [](allocated = leased)
    /\ [][ /\ allocated' # allocated
              => /\ last'.op \in {"RequestPool", "RequestAddress",
                                  "ReleasePool", "ReleaseAddress"}
                 /\ last'.err = "nil"
           /\ (last'.op = "ReleasePool" /\ PoolString(last'.pool) \notin allocated)
              => last'.err \notin {"nil"}
           /\ (last'.op = "ReleaseAddress" /\ IPString(last'.ip) \notin allocated)
              => last'.err \notin {"nil"} ]_vars

\* C8 witness: an address was just released while a pool is still leased.
C8_Witness ==
    /\ last.op = "ReleaseAddress"
    /\ last.err = "nil"
    /\ IPString(last.ip) \notin allocated
    /\ \E k \in allocated : IsPoolKey(k)

\* ------------------------------------------------------------------ C9
\* C9: RequestAddress(pool, ip) with pool's key not in the allocated set
\* fails with PoolNotAllocated and changes nothing, also for a released pool
\* and for a part or a superset of a leased pool.
C9_UnleasedPool ==
    [][ (last'.op = "RequestAddress" /\ PoolString(last'.pool) \notin allocated)
          => /\ last'.err = "PoolNotAllocated"
             /\ pools' = pools
             /\ allocated' = allocated
             /\ updated' = updated ]_vars

\* C9 witness: an address was asked of a proper part of a leased pool.
C9_Witness ==
    /\ last.op = "RequestAddress"
    /\ last.err = "PoolNotAllocated"
    /\ \E k \in allocated :
          /\ IsPoolKey(k)
          /\ RangeInside(last.pool, KeyPool(k))
          /\ PrefixLen(last.pool) > PrefixLen(KeyPool(k))

\* ------------------------------------------------------------------ C10
\* Addresses strictly between the network and the broadcast address of p
HostAddrs(p) ==
    {a \in BlockAddrs :
        /\ AddrInside(a, p)
        /\ \E k \in PrefixLen(p)..31 : Bit(a, k) = 1
        /\ \E k \in PrefixLen(p)..31 : Bit(a, k) = 0}

\* a is numerically below b (4-byte addresses)
AddrLess(a, b) ==
    \E i \in 1..IPv4len : a[i] < b[i] /\ \A j \in 1..(i - 1) : a[j] = b[j]

\* C10: RequestAddress(pool, nil) on a leased pool that has a free host
\* address returns the numerically smallest one and marks it allocated.
C10_FirstFreeAddress ==
    [][ (last'.op = "RequestAddress" /\ last'.ip = NilIP
            /\ PoolString(last'.pool) \in allocated)
          => LET free == {a \in HostAddrs(last'.pool) : IPString(a) \notin allocated}
             IN  free # {}
                   => /\ last'.err = "nil"
                      /\ last'.retIP \in free
                      /\ \A a \in free : ~AddrLess(a, last'.retIP)
                      /\ allocated' = allocated \cup {IPString(last'.retIP)} ]_vars

\* ------------------------------------------------------------------ C11
\* C11: on a leased pool of prefix length L, RequestAddress(pool, nil)
\* succeeds while one of the pool's 2^(32-L) - 2 host addresses is free,
\* each time with an address not handed out before, and fails with
\* PoolExhausted, changing nothing, once none is left.
C11_ExhaustionBound ==
    [][ (last'.op = "RequestAddress" /\ last'.ip = NilIP
            /\ PoolString(last'.pool) \in allocated)
          => LET hosts == HostAddrs(last'.pool)
                 free == {a \in hosts : IPString(a) \notin allocated}
             IN  /\ Cardinality(hosts) = 2 ^ (32 - PrefixLen(last'.pool)) - 2
                 /\ IF free = {}
                    THEN /\ last'.err = "PoolExhausted"
                         /\ allocated' = allocated
                    ELSE /\ last'.err = "nil"
                         /\ last'.retIP \in hosts
                         /\ IPString(last'.retIP) \notin allocated ]_vars

C13_ReleaseAddress ==
    [][ /\ last'.op = "ReleaseAddress" =>
              IF To4(last'.ip) = NilIP
              THEN /\ last'.err = "InvalidAddressFamily"
                   /\ allocated' = allocated /\ pools' = pools
              ELSE IF IPString(last'.ip) \notin allocated
              THEN /\ last'.err = "AddressNotAllocated"
                   /\ allocated' = allocated /\ pools' = pools
              ELSE /\ last'.err = "nil"
                   /\ allocated' = allocated \ {IPString(last'.ip)}
                   /\ pools' = pools
        /\ (last.op = "ReleaseAddress" /\ last.err = "nil"
                /\ last'.op = "ReleaseAddress"
                /\ IPString(last'.ip) = IPString(last.ip))
              => last'.err = "AddressNotAllocated"
        /\ (last.op = "ReleaseAddress" /\ last.err = "nil"
                /\ last'.op = "RequestAddress" /\ last'.ip # NilIP
                /\ IPString(last'.ip) = IPString(last.ip)
                /\ PoolString(last'.pool) \in allocated
                /\ AddrInside(To4(last'.ip), last'.pool))
              => /\ last'.err = "nil"
                 /\ IPString(last'.ip) \in allocated' ]_vars

\* C13 witness: one of two leased addresses was just released; the other
\* is still allocated.
C13_Witness ==
    /\ last.op = "ReleaseAddress"
    /\ last.err = "nil"
    /\ IPString(last.ip) \notin allocated
    /\ \E k \in allocated : IsAddrKey(k)

\* ------------------------------------------------------------------ C14
\* C14: RequestPool(n) fails with InvalidMaskLength for n < 0 or n > 31 and
\* with PoolExhausted when slots n..0 hold no free block; a failing
\* RequestPool leaves every slot and the allocated set unchanged.
C14_RequestPoolErrors ==
    [][ last'.op = "RequestPool" =>
          /\ (last'.pool = NilPool /\ (last'.masklen < 0 \/ last'.masklen > 31))
                => last'.err = "InvalidMaskLength"
          /\ (last'.pool = NilPool /\ last'.masklen \in 0..31
                /\ \A p \in FreeSet(pools) : PrefixLen(p) > last'.masklen)
                => last'.err = "PoolExhausted"
          /\ (last'.pool = NilPool /\ last'.masklen \in 0..31
                /\ \E p \in FreeSet(pools) : PrefixLen(p) <= last'.masklen)
                => last'.err = "nil"
          /\ last'.err # "nil" => (pools' = pools /\ allocated' = allocated) ]_vars

\* C14 witness: a block is free, but it is smaller than the one asked for.
C14_Witness ==
    /\ last.op = "RequestPool"
    /\ last.err = "PoolExhausted"
    /\ \E p \in FreeSet(pools) : PrefixLen(p) > last.masklen

\* ------------------------------------------------------------------ C15
\* C15: AddPool(P) with an entry of P's normalized network already in the
\* slot of P's prefix length fails with DuplicatePool and changes nothing.
C15_DuplicatePool ==
    [][ (last'.op = "AddPool" /\ Len(last'.pool.Mask) = IPv4len
            /\ normalizePool(last'.pool) \in FreeSet(pools))
          => /\ last'.err = "DuplicatePool"
             /\ pools' = pools
             /\ allocated' = allocated
             /\ updated' = updated ]_vars

\* C15 witness: a pool given with a host bit set was refused as a duplicate
\* of the entry of its network.
C15_Witness ==
    /\ last.op = "AddPool"
    /\ last.err = "DuplicatePool"
    /\ last.pool # normalizePool(last.pool)
    /\ normalizePool(last.pool) \in FreeSet(pools)

\* ------------------------------------------------------------------ C16
\* C16: when a successful mutating call returns (AddPool, RequestPool,
\* ReleasePool, RequestAddress with or without an address, ReleaseAddress),
\* the dirty flag is set.
C16_DirtyOnMutation ==
    [][ muts' # muts => updated' = TRUE ]_vars

\* ------------------------------------------------------------------ C17
\* No caller is inside a call
AllIdle == \A t \in Threads : th[t].pc = "idle"

\* The snapshot on disk is the dump of the state in memory
Persisted == file = [free |-> DumpFree(pools), allocated |-> allocated]

\* C17: with autosave scheduled fairly, whenever the callers are quiet
\* after calls that all succeeded, the snapshot on disk comes to equal the
\* in-memory state (free pools and allocated set), unless a caller enters a
\* new call first.
C17_EventuallySaved ==
    (AllIdle /\ muts = calls) ~> (Persisted \/ ~AllIdle)

AtomicResult(c) ==
    CASE c.op = "AddPool" ->
           LET r == AddPoolResult(c.p0, c.pool)
           IN  [pools |-> r.pools, allocated |-> c.a0, err |-> r.err,
                retPool |-> NilPool, retIP |-> NilIP]
      [] c.op = "RequestPool" ->
           LET r == RequestPoolResult(c.p0, c.a0, c.masklen, NilPool)
           IN  [pools |-> r.pools, allocated |-> r.allocated, err |-> r.err,
                retPool |-> r.ret, retIP |-> NilIP]
      [] c.op = "ReleasePool" ->
           LET r == ReleasePoolResult(c.p0, c.a0, c.pool)
           IN  [pools |-> r.pools, allocated |-> r.allocated, err |-> r.err,
                retPool |-> NilPool, retIP |-> NilIP]
      [] c.op = "RequestAddress" ->
           LET r == RequestAddressResult(c.a0, c.pool, c.ip)
           IN  [pools |-> c.p0, allocated |-> r.allocated, err |-> r.err,
                retPool |-> NilPool, retIP |-> r.ret]
      [] OTHER ->
           LET r == ReleaseAddressResult(c.a0, c.ip)
           IN  [pools |-> c.p0, allocated |-> r.allocated, err |-> r.err,
                retPool |-> NilPool, retIP |-> NilIP]

\* A call returns having done exactly what it does run alone
ReturnsAtomically(c) ==
    LET r == AtomicResult(c)
    IN  /\ pools = r.pools
        /\ allocated = r.allocated
        /\ c.err = r.err
        /\ c.retPool = r.retPool
        /\ c.retIP = r.retIP

\* C19: under every interleaving a call that took the lock returns having
\* done exactly what it does run alone from the state it found; a
\* RequestPool never returns a pool overlapping one that another caller was
\* given while the call was in progress, and a RequestAddress never returns
\* an address another caller was given meanwhile.
C19_AtomicCalls ==
    [][ \A t \in Threads :
          (th[t].pc = "unlock" /\ th'[t].pc = "idle") =>
             /\ ReturnsAtomically(th[t])
             /\ (th[t].op = "RequestPool" /\ th[t].err = "nil")
                  => \A k \in th[t].during :
                        IsPoolKey(k) => ~RangesMeet(KeyPool(k), th[t].retPool)
             /\ (th[t].op = "RequestAddress" /\ th[t].err = "nil")
                  => IPString(th[t].retIP) \notin th[t].during ]_vars

\* ------------------------------------------------------------------ C20
\* A caller is between taking the lock and releasing it
InMutation(t) == th[t].pc \notin {"idle", "lock"}

\* C20: while a reader holds the lock no caller is inside a mutation; the
\* lists Dump returns are the free pools and the allocated set of one
\* instant at which no mutating call is in progress; and every snapshot
\* written is such a dump.
C20_DumpNeverOverlaps ==
    /\ [](lock.r > 0 => (lock.w = 0 /\ \A t \in Threads : ~InMutation(t)))
    /\ [][ /\ (saver.pc = "readalloc" /\ saver'.pc = "write")
                => /\ saver'.free = DumpFree(pools)
                   /\ saver'.alloc = allocated
                   /\ \A t \in Threads : ~InMutation(t)
           /\ file' # file
                => file' = [free |-> saver.free, allocated |-> saver.alloc] ]_vars

\* C20 witness: Dump has read the free pools and is about to read the
\* allocated set, while a caller waits for the lock.
C20_Witness ==
    /\ saver.pc = "readalloc"
    /\ saver.free # <<>>
    /\ lock.r > 0
    /\ \E t \in Threads : th[t].pc = "lock"

\* ------------------------------------------------------------------ C21
\* C21: in every reachable state, saving the allocator (its Dump) and
\* loading that snapshot into a fresh allocator succeeds and gives, in every
\* slot, the free pools the slot held, and the same allocated set.
C21_SnapshotRoundTrip ==
    LET r == load([i \in Slots |-> <<>>], {}, FALSE, TRUE, Dump(pools, allocated))
    IN  /\ r.err = "nil"
        /\ \A i \in Slots : r.pools[i] = pools[i]
        /\ r.allocated = allocated

\* C21 witness: a load of the snapshot autosave wrote has restored a state
\* with a free pool, a leased pool and a leased address.
C21_Witness ==
    /\ last.op = "Load" /\ last.err = "nil"
    /\ file = Dump(pools, allocated)
    /\ FreeSet(pools) # {}
    /\ \E k \in allocated : IsPoolKey(k)
    /\ \E k \in allocated : IsAddrKey(k)

\* ------------------------------------------------------------------ C22
\* The text spells a v4 CIDR, or a v4 address
IsV4CIDRText(s) ==
    /\ Len(s) = IPv4len + 1
    /\ \A k \in 1..IPv4len : s[k] \in 0..255
    /\ s[IPv4len + 1] \in 0..32

IsV4AddrText(s) == Len(s) = IPv4len /\ \A k \in 1..IPv4len : s[k] \in 0..255

CorruptDump(d) ==
    \/ \E k \in 1..Len(d.free) : ~IsV4CIDRText(d.free[k])
    \/ \E s \in d.allocated : ~(IsV4CIDRText(s) \/ IsV4AddrText(s))

\* C22: every Load of a snapshot in which some string, of the free list or
\* of the allocated list, is not a parseable IPv4 CIDR or address fails
\* with CorruptSnapshot.
C22_CorruptSnapshot ==
    [][ (last'.op = "Load" /\ calls' = calls + 1 /\ saves > 0 /\ CorruptDump(file))
            => last'.err = "CorruptSnapshot" ]_vars

\* ------------------------------------------------------------------ C23
\* The pool a v4 CIDR text spells
TextPool(s) ==
    [IP |-> And(SubSeq(s, 1, IPv4len), CIDRMask(s[IPv4len + 1])),
     Mask |-> CIDRMask(s[IPv4len + 1])]

\* The pools of mask length i the free list of a dump spells, in its order
DumpSlot(d, i) ==
    LET sel == SelectSeq(d.free, LAMBDA s : s[IPv4len + 1] = i)
    IN  Bytes([k \in 1..Len(sel) |-> TextPool(sel[k])])

\* C23: after every successful Load each slot holds exactly the pools of
\* its length that the snapshot lists, in the snapshot's order (nothing of
\* the state before the call is kept, nothing is merged), and the allocated
\* set is exactly the snapshot's allocated list.
C23_LoadReplacesState ==
    [][ (last'.op = "Load" /\ calls' = calls + 1 /\ last'.err = "nil")
            => /\ \A i \in Slots : pools'[i] = DumpSlot(file, i)
               /\ allocated' = file.allocated ]_vars

\* C23 witness: a successful Load, made by an allocator to which pools had
\* been added, has left two buddies side by side in slot 31 and none of
\* the pools added before.
C23_Witness ==
    /\ last.op = "Load" /\ last.err = "nil"
    /\ added # {}
    /\ FreeSet(pools) \cap added = {}
    /\ Len(pools[MaxMasklen]) = 2
    /\ pools[MaxMasklen][2] = adjacentPool(pools[MaxMasklen][1])

\* ------------------------------------------------------------------ C24
\* The first two calls are AddPool(172.16.0.0/16) and RequestPool(24)
Scenario1Step ==
    /\ calls = 1 /\ last.op = "AddPool" /\ last.pool = DefaultPool /\ last.err = "nil"
    /\ calls' = 2 /\ last'.op = "RequestPool" /\ last'.masklen = 24
    /\ last'.pool = NilPool

\* The request succeeded with a /24 of the default block, which is leased
Scenario1Lease ==
    /\ last'.err = "nil"
    /\ PrefixLen(last'.retPool) = 24
    /\ IsNormalized(last'.retPool)
    /\ RangeInside(last'.retPool, DefaultPool)
    /\ allocated' = {PoolString(last'.retPool)}

\* Slots lo..hi hold one block each, of the slot's length, inside the
\* default block, apart from each other and from the pool returned; every
\* other slot is empty
Scenario1Free(lo, hi) ==
    /\ \A i \in Slots : Len(pools'[i]) = IF i \in lo..hi THEN 1 ELSE 0
    /\ \A i \in lo..hi :
          /\ PrefixLen(pools'[i][1]) = i
          /\ IsNormalized(pools'[i][1])
          /\ RangeInside(pools'[i][1], DefaultPool)
          /\ ~RangesMeet(pools'[i][1], last'.retPool)
          /\ \A j \in lo..hi : j # i => ~RangesMeet(pools'[i][1], pools'[j][1])

\* C24 (amended): on an empty allocator AddPool(172.16.0.0/16) followed by
\* RequestPool(24) succeeds and returns a /24 inside 172.16.0.0/16, and the
\* free structure then holds exactly the complementary blocks: one at each
\* prefix length /17 through /24.
C24_Scenario1 ==
    [][ Scenario1Step => Scenario1Lease /\ Scenario1Free(17, 24) ]_vars

\* C24 as stated: after the two calls the free structure holds the
\* complementary blocks at prefix lengths /17 through /25.
C24_Scenario1_AsStated ==
    [][ Scenario1Step => Scenario1Lease /\ Scenario1Free(17, 25) ]_vars

\* C24 witness: the scenario has run: 172.16.0.0/16 was added, the one
\* request, for a /24, was served, and slot 24 holds a free block.
C24_Witness ==
    /\ calls = 2 /\ added = {DefaultPool}
    /\ last.op = "RequestPool" /\ last.masklen = 24 /\ last.err = "nil"
    /\ Len(pools[24]) = 1

\* ------------------------------------------------------------------ C25
\* C25: a driver RequestPool that reaches the option asks the allocator for
\* the length the cidr_mask_length option spells when it is present and for
\* 28 otherwise; it succeeds only when that length is an integer in 0..31,
\* and then leases a pool of that length exactly as the allocator's
\* RequestPool does; for every other value it returns an error and changes
\* neither the free structure nor the allocated set.
C25_DriverMaskLength ==
    [][ \A opt \in OptionInputs :
          DriverRequestPool(Request(FALSE, "", "local", opt)) =>
            LET conv == IF opt.found THEN Atoi(opt.val) ELSE [err |-> "nil", val |-> 28]
                inRange == conv.err = "nil" /\ conv.val \in 0..31
                r == RequestPoolResult(pools, allocated, conv.val, NilPool)
            IN  /\ last'.err = "nil" =>
                      /\ inRange
                      /\ PrefixLen(last'.retPool) = conv.val
                      /\ PoolString(last'.retPool) \in allocated'
                /\ inRange =>
                      /\ last'.masklen = conv.val
                      /\ pools' = r.pools /\ allocated' = r.allocated
                      /\ last'.retPool = r.ret
                /\ ~inRange =>
                      /\ last'.err # "nil"
                      /\ pools' = pools /\ allocated' = allocated
      ]_vars

\* C25 witness: the driver has just leased a /28 (no option, or "+28")
\* while a /31 it leased for the option "31" is still held.
C25_Witness ==
    /\ last.op = "Driver.RequestPool" /\ last.err = "nil"
    /\ last.masklen = 28 /\ PrefixLen(last.retPool) = 28
    /\ \E k \in leased : IsPoolKey(k) /\ k[IPv4len + 1] = 31

\* ------------------------------------------------------------------ C26
\* Slots 0..n that hold a free pool
NonEmptyUpTo(ps, n) == {i \in 0..n : Len(ps[i]) > 0}

GreatestOf(S) == CHOOSE i \in S : \A j \in S : j <= i

\* C26: a RequestPool(n) with n in 0..31 fails with PoolExhausted exactly
\* when slots 0..n are all empty (whatever slots above n hold); otherwise
\* it succeeds and takes the head of the non-empty slot with the greatest
\* index i <= n: that slot keeps its tail, the pool returned lies inside
\* the head (and is the head when i = n), and no slot below i or above n
\* changes.
C26_SlotChoice ==
    [][ (last'.op = "RequestPool" /\ calls' = calls + 1 /\ last'.pool = NilPool
            /\ last'.masklen \in 0..MaxMasklen) =>
          LET n == last'.masklen
              S == NonEmptyUpTo(pools, n)
          IN  /\ last'.err = "PoolExhausted" <=> S = {}
              /\ S = {} => pools' = pools
              /\ S # {} =>
                    LET i == GreatestOf(S)
                    IN  /\ last'.err = "nil"
                        /\ pools'[i] = Tail(pools[i])
                        /\ RangeInside(last'.retPool, Head(pools[i]))
                        /\ i = n => last'.retPool = Head(pools[i])
                        /\ \A j \in Slots : (j < i \/ j > n) => pools'[j] = pools[j]
      ]_vars

\* C26 witness: a /16 was requested and returned while slot 16 held two
\* blocks and slot 24 a smaller one: the second /16 is still in slot 16.
C26_Witness ==
    /\ last.op = "RequestPool" /\ last.err = "nil" /\ last.masklen = 16
    /\ Len(pools[16]) = 1
    /\ pools[16][1] # last.retPool
    /\ PoolString(last.retPool) \in allocated
    /\ Len(pools[24]) = 1

\* ------------------------------------------------------------------ C27
\* The number of /n blocks the pools of a set cover when they are apart
RECURSIVE BlocksOf(_, _)
BlocksOf(P, n) ==
    IF P = {} THEN 0
    ELSE LET p == CHOOSE q \in P : TRUE
         IN  2 ^ (n - PrefixLen(p)) + BlocksOf(P \ {p}, n)

\* C27: when a successful RequestPool(n), made directly or by the driver,
\* takes its block B from a slot i < n, then slot i loses exactly B (its head), every slot j with
\* i < j <= n gains exactly one pool, appended: the /j block that holds the
\* upper half of the /(j-1) block around the pool returned; every other
\* slot is unchanged; the pool returned is the /n block at B's own address;
\* and the pool returned and the pools pushed are pairwise apart, lie
\* inside B and together are as large as B.
C27_SplitFrame ==
    [][ (last'.op \in {"RequestPool", "Driver.RequestPool"}
            /\ calls' = calls + 1 /\ last'.err = "nil"
            /\ GreatestOf(NonEmptyUpTo(pools, last'.masklen)) < last'.masklen) =>
          LET n == last'.masklen
              i == GreatestOf(NonEmptyUpTo(pools, n))
              B == Head(pools[i])
              ret == last'.retPool
              pushed(j) == pools'[j][Len(pools'[j])]
              parts == {ret} \cup {pushed(j) : j \in (i + 1)..n}
          IN  /\ pools'[i] = Tail(pools[i])
              /\ \A j \in (i + 1)..n :
                    /\ Len(pools'[j]) = Len(pools[j]) + 1
                    /\ SubSeq(pools'[j], 1, Len(pools[j])) = pools[j]
                    /\ PrefixLen(pushed(j)) = j
                    /\ IsNormalized(pushed(j))
                    /\ \A k \in 0..(j - 2) : Bit(pushed(j).IP, k) = Bit(ret.IP, k)
                    /\ Bit(pushed(j).IP, j - 1) = 1
                    /\ Bit(ret.IP, j - 1) = 0
              /\ \A j \in Slots : (j < i \/ j > n) => pools'[j] = pools[j]
              /\ ret = [IP |-> B.IP, Mask |-> CIDRMask(n)]
              /\ \A p \in parts : RangeInside(p, B)
              /\ \A p, q \in parts : p # q => ~RangesMeet(p, q)
              /\ BlocksOf(parts, n) = 2 ^ (n - i)
      ]_vars

\* C27 witness: a /28 was cut from a /24 that lay in slot 24 under a
\* non-empty slot 16: slots 25..28 hold one pushed block each, slot 24 is
\* empty and slot 16 is as it was.
C27_Witness ==
    /\ last.op = "Driver.RequestPool" \/ last.op = "RequestPool"
    /\ last.err = "nil" /\ PrefixLen(last.retPool) = 28
    /\ \A j \in 25..28 : Len(pools[j]) = 1
    /\ Len(pools[24]) = 0
    /\ Len(pools[16]) = 1

\* ------------------------------------------------------------------ C28
\* Every pool of slot k has prefix length k, a 4-byte address and no host
\* bit set
SlotsWellFormed(ps) ==
    \A i \in Slots : \A k \in 1..Len(ps[i]) :
        /\ Len(ps[i][k].IP) = IPv4len
        /\ PrefixLen(ps[i][k]) = i
        /\ IsNormalized(ps[i][k])

\* C28: in every state reached by AddPool, RequestPool, ReleasePool and
\* Load each pool stored in slot k has prefix length exactly k and a
\* normalized network; and an AddPool of a normalized IPv4 pool with a
\* prefix length in 0..32 never faults.
C28_SlotInvariant ==
    /\ SlotsWellFormed(pools)
    /\ (/\ last.op = "AddPool"
        /\ Len(last.pool.IP) = IPv4len
        /\ last.pool.Mask = CIDRMask(PrefixLen(last.pool))
        /\ IsNormalized(last.pool))
            => last.err # "panic"

\* ------------------------------------------------------------------ C29
\* Two pools of one length whose ranges are the halves of an aligned block
\* of twice their size
AreBuddies(p, q) ==
    /\ PrefixLen(p) = PrefixLen(q)
    /\ PrefixLen(p) > 0
    /\ \A k \in 0..(PrefixLen(p) - 2) : Bit(p.IP, k) = Bit(q.IP, k)
    /\ Bit(p.IP, PrefixLen(p) - 1) # Bit(q.IP, PrefixLen(p) - 1)

\* C29: starting from an empty allocator, after every completed AddPool,
\* RequestPool or ReleasePool no slot of the free structure holds both a
\* pool and its buddy.
C29_MaximalCoalescing ==
    \A i \in Slots : \A k, l \in 1..Len(pools[i]) :
        ~AreBuddies(pools[i][k], pools[i][l])

\* C29 witness: a /31 was added whose buddy, added before, was free: slot
\* 31 is empty and the block of both lies in slot 30.
C29_Witness ==
    /\ last.op = "AddPool" /\ last.err = "nil"
    /\ PrefixLen(last.pool) = MaxMasklen
    /\ adjacentPool(normalizePool(last.pool)) \in added
    /\ Len(pools[MaxMasklen]) = 0
    /\ expandPool(normalizePool(last.pool)) \in FreeSet(pools)

\* ------------------------------------------------------------------ C30
\* The pools of the keys in a set
KeyPools(keys) == {KeyPool(k) : k \in {x \in keys : IsPoolKey(x)}}

\* The caller's discipline: the range of the pool meets no pool added
\* before, no free pool and no leased pool
MayAdd(pool) ==
    LET p == normalizePool(pool)
    IN  /\ \A q \in added : ~RangesMeet(p, q)
        /\ \A q \in FreeSet(pools) : ~RangesMeet(p, q)
        /\ \A q \in KeyPools(leased \cup allocated) : ~RangesMeet(p, q)

\* AddPool by a caller that keeps the discipline
AddPoolDisjoint(pool) == MayAdd(pool) /\ AddPool(pool)

DisjointAddInputs == NormPools \cup HostPools \cup {DenormPool}

NextDisjoint ==
    \/ \E pool \in DisjointAddInputs : AddPoolDisjoint(pool)
    \/ \E masklen \in MasklenInputs : RequestPool(masklen, NilPool)
    \/ \E pool \in LeaseInputs : ReleasePool(pool)
    \/ \E pool \in LeaseInputs, ip \in RequestAddrInputs : RequestAddress(pool, ip)
    \/ \E ip \in ReleaseAddrInputs : ReleaseAddress(ip)

\* A new allocator whose callers never add a range twice
SpecDisjoint == Init /\ [][NextDisjoint]_vars

\* The leased pools are pairwise apart and meet no free pool
LeasesApart ==
    LET L == KeyPools(leased \cup allocated)
    IN  /\ \A p, q \in L : p # q => ~RangesMeet(p, q)
        /\ \A p \in L : \A q \in FreeSet(pools) : ~RangesMeet(p, q)

\* C30: when the pools passed to AddPool are pairwise non-overlapping and
\* none is added while part of its range is free or leased, then in every
\* reachable state the leased pools are pairwise non-overlapping and none
\* overlaps a free pool; and a pool handed out by RequestPool overlaps no
\* pool that was leased when it was requested.
C30_DisjointLeases ==
    [][ /\ LeasesApart'
        /\ (last'.op = "RequestPool" /\ calls' = calls + 1 /\ last'.err = "nil")
              => \A q \in KeyPools(leased \cup allocated) :
                    ~RangesMeet(last'.retPool, q) ]_vars

\* C30 witness: the caller's block was added once and both its halves are
\* leased, the second just now; nothing is free.
C30_Witness ==
    /\ last.op = "RequestPool" /\ last.err = "nil"
    /\ Cardinality(KeyPools(leased)) = 2
    /\ added = {ConcBlock}
    /\ FreeSet(pools) = {}

\* ------------------------------------------------------------------ C31
\* The addresses of the caller's range that lie in a pool of the set
Covered(P) == {ip \in BlockAddrs : \E p \in P : AddrInside(ip, p)}

\* Number of addresses of a pool
PoolSize(p) == 2 ^ (32 - PrefixLen(p))

RECURSIVE SizeOfSeq(_, _)
SizeOfSeq(s, k) == IF k > Len(s) THEN 0 ELSE PoolSize(s[k]) + SizeOfSeq(s, k + 1)

RECURSIVE FreeSizeFrom(_, _)
FreeSizeFrom(ps, i) ==
    IF i >= NumSlots THEN 0 ELSE SizeOfSeq(ps[i], 1) + FreeSizeFrom(ps, i + 1)

RECURSIVE SizeOfSet(_)
SizeOfSet(P) ==
    IF P = {} THEN 0
    ELSE LET p == CHOOSE q \in P : TRUE IN PoolSize(p) + SizeOfSet(P \ {p})

\* C31: when the pools passed to AddPool are pairwise disjoint and never
\* re-added, then in every reachable state the addresses of the free pools
\* and of the leased pools together are exactly the addresses of the pools
\* added, and each of them is counted once: the sizes of all free entries
\* and of all leased pools add up to the number of addresses added.
C31_Conservation ==
    /\ Covered(FreeSet(pools) \cup KeyPools(allocated)) = Covered(added)
    /\ FreeSizeFrom(pools, 0) + SizeOfSet(KeyPools(allocated))
          = Cardinality(Covered(added))

\* C31 witness: the two halves of the caller's block were added one by
\* one and merged; a request has split the block again: one part is
\* leased and one is free.
C31_Witness ==
    /\ Cardinality(added) = 2
    /\ last.op = "RequestPool" /\ last.err = "nil"
    /\ KeyPools(allocated) # {}
    /\ FreeSet(pools) # {}

\* ------------------------------------------------------------------ C32
\* C32: in every reachable state each address of the allocated set lies
\* inside a pool that is leased at that moment; so once ReleasePool(P) has
\* succeeded no address of P is allocated any more.
C32_AddressesInsideLeases ==
    \A k \in allocated :
        IsAddrKey(k) => \E q \in KeyPools(allocated) : AddrInside(k, q)

\* ------------------------------------------------------------------ C33
\* C33: whenever AddPool returns an error (a pool that is not IPv4, or a
\* duplicate, also one found at a higher level of a merge cascade) every
\* slot of the free structure and the allocated set are as they were
\* before the call.
C33_FailedAddPoolChangesNothing ==
    [][ (last'.op = "AddPool" /\ calls' = calls + 1 /\ last'.err # "nil")
            => pools' = pools /\ allocated' = allocated ]_vars

\* ------------------------------------------------------------------ C34
\* The big-endian number after a: bytes k..Len(a) incremented, the carry
\* running from the last byte toward the first and dropped at the first
RECURSIVE Incr(_, _)
Incr(a, k) ==
    IF k = 0 THEN a
    ELSE IF a[k] = 255 THEN Incr([a EXCEPT ![k] = 0], k - 1)
    ELSE [a EXCEPT ![k] = a[k] + 1]

\* C34: for every 4-byte input a, Add(a, 1) terminates without a fault and
\* yields a + 1 modulo 2^32, a read as a big-endian unsigned integer (the
\* carry runs from the last byte toward the first).
C34_AddOne ==
    last.op = "Add" => (last.err = "nil" /\ last.retIP = Incr(last.ip, Len(last.ip)))

\* ------------------------------------------------------------------ C35
\* C35: for every byte sequence s and index i in 0..8*len(s)-1,
\* FlipBit(i, s) toggles the bit at byte i/8, position 7 - i%8 and leaves
\* every other bit and the length as they were; a second FlipBit(i, .) on
\* the result gives s back.
C35_FlipBitInvolution ==
    /\ last.op = "FlipBit" =>
          /\ Len(last.retIP) = Len(last.ip)
          /\ \A k \in 0..(8 * Len(last.ip) - 1) :
                Bit(last.retIP, k) =
                    IF k = last.masklen THEN 1 - Bit(last.ip, k) ELSE Bit(last.ip, k)
    /\ last.op = "FlipBit.FlipBit" => last.retIP = last.ip

\* C35 witness: bit 15, the last bit of byte 1, of 255.255.0.0 was flipped
\* twice.
C35_Witness ==
    /\ last.op = "FlipBit.FlipBit"
    /\ last.masklen = 15
    /\ last.ip = <<255, 255, 0, 0>>
    /\ last.retIP = <<255, 255, 0, 0>>

\* ------------------------------------------------------------------ C36
\* q has the length of p and its address differs from p's in bit L-1 only
IsBuddyOf(q, p) ==
    /\ Len(q.IP) = IPv4len /\ Len(q.Mask) = IPv4len
    /\ PrefixLen(q) = PrefixLen(p)
    /\ \A k \in 0..31 :
          Bit(q.IP, k) = IF k = PrefixLen(p) - 1 THEN 1 - Bit(p.IP, k) ELSE Bit(p.IP, k)

\* q is the aligned block of length L-1 around p
IsParentOf(q, p) ==
    /\ Len(q.IP) = IPv4len /\ Len(q.Mask) = IPv4len
    /\ PrefixLen(q) = PrefixLen(p) - 1
    /\ \A k \in 0..31 :
          Bit(q.IP, k) = IF k < PrefixLen(p) - 1 THEN Bit(p.IP, k) ELSE 0

C37_Overlaps ==
    LET a == last.pool
        b == last.retPool
    IN  /\ last.op = "Overlaps" =>
              (last.err = "true" <=> (a # NilPool /\ b # NilPool /\ RangesMeet(a, b)))
        /\ last.op = "Overlaps.swapped" =>
              /\ last.err = "true" <=> last.masklen = 1
              /\ (a = NilPool \/ b = NilPool) => last.err = "false"

\* C37 witness: 172.16.0.2/31 and the /30 around it overlap, asked in both
\* orders: the network address of the /30 is not in the /31.
C37_Witness ==
    /\ last.op = "Overlaps.swapped" /\ last.err = "true"
    /\ last.pool # NilPool /\ last.retPool # NilPool
    /\ PrefixLen(last.pool) = 31 /\ PrefixLen(last.retPool) = 30
    /\ last.pool.IP = AddrAt(2)

\* ------------------------------------------------------------------ C38
\* C38: under fair scheduling every call that has begun takes the lock and
\* returns, a Dump that autosave has begun returns, and no signal is lost:
\* autosave never sleeps on the condition while the dirty flag is set, and
\* a set flag is always picked up.
C38_DeadlockFree ==
    /\ \A t \in Threads : (th[t].pc # "idle") ~> (th[t].pc = "idle")
    /\ (saver.pc \in {"dump", "readfree", "readalloc"}) ~> (saver.pc = "write")
    /\ [](saver.pc = "waiting" => ~updated)
    /\ updated ~> ~updated

\* C38 witness: after a first save, one caller has mutated under the lock
\* and signalled, autosave is on its way to the lock with the flag set,
\* and another caller waits for the lock.
C38_Witness ==
    \E t, u \in Threads :
        /\ th[t].pc = "lock"
        /\ lock.w = u /\ th[u].pc = "unlock" /\ th[u].err = "nil"
        /\ updated /\ saver.pc = "start" /\ saves >= 1

\* ------------------------------------------------------------------ C39
\* The text is no pool ID: no address space, no separator, or no v4 CIDR
BadPoolId(id) == id.sep # ":" \/ id.as = "" \/ ~IsV4CIDRText(id.cidr)

\* The text is no address, v4 or v6
BadAddress(s) == ~(IsV4AddrText(s) \/ (Len(s) = 16 /\ \A k \in 1..16 : s[k] \in 0..255))

\* The step returned an error of the driver and changed neither the free
\* structure nor the allocated set
RejectedByDriver ==
    /\ last'.err \in {"UnsupportedIPv6", "UnsupportedPoolReq", "NilAllocator",
                      "AddrSpaceNotFound", "ParseID", "ParseIP"}
    /\ pools' = pools
    /\ allocated' = allocated

\* C39: a RequestPool for IPv6, for a specific pool or sub-pool, and any
\* request naming the "null" or an unknown address space, a pool ID that
\* does not parse or an address that does not parse, returns an error of
\* the driver and changes neither the free structure nor the allocated
\* set; and a request that succeeds named the "local" address space.
C39_RejectedRequests ==
    [][ /\ last'.op = "Driver.RequestPool" =>
              \A req \in PluginPoolRequests :
                 DriverRequestPool(req) =>
                    /\ (req.V6 \/ req.Pool # "" \/ req.SubPool # ""
                           \/ req.AddressSpace # "local") => RejectedByDriver
                    /\ last'.err = "nil" => req.AddressSpace = "local"
        /\ last'.op = "Driver.ReleasePool" =>
              \A req \in PluginReleaseRequests :
                 DriverReleasePool(req) =>
                    /\ (BadPoolId(req.PoolID) \/ req.PoolID.as # "local")
                          => RejectedByDriver
                    /\ last'.err = "nil" => req.PoolID.as = "local"
        /\ last'.op = "Driver.RequestAddress" =>
              \A req \in PluginIdRequests :
                 DriverRequestAddress(req) =>
                    /\ (BadPoolId(req.PoolID) \/ req.PoolID.as # "local"
                           \/ (req.Address # <<>> /\ BadAddress(req.Address)))
                          => RejectedByDriver
                    /\ last'.err = "nil" => req.PoolID.as = "local"
        /\ last'.op = "Driver.ReleaseAddress" =>
              \A req \in PluginIdRequests :
                 DriverReleaseAddress(req) =>
                    /\ (BadPoolId(req.PoolID) \/ req.PoolID.as # "local"
                           \/ BadAddress(req.Address))
                          => RejectedByDriver
                    /\ last'.err = "nil" => req.PoolID.as = "local"
      ]_vars

\* C39 witness: with 172.16.0.0/28 leased and 172.16.0.1 allocated in it,
\* a RequestAddress for that pool with an address text that does not parse
\* was rejected.
C39_Witness ==
    /\ last.op = "Driver.RequestAddress" /\ last.err = "ParseIP"
    /\ <<172, 16, 0, 0, 28>> \in allocated
    /\ <<172, 16, 0, 1>> \in allocated
    /\ last.pool = KeyPool(<<172, 16, 0, 0, 28>>)

====
